---------------------------- MODULE Spec2Model ----------------------------
(***************************************************************************)
(* Roles-and-permissions explorer (khoi-stripe/uvp-v2).                    *)
(*                                                                         *)
(* The module models the permission catalog and the pure functions of the  *)
(* data module (access resolution, risk assessment) and the state machine  *)
(* of RolesPermissionsPage with its two builder modals, the custom-role    *)
(* collection and its localStorage persistence.                            *)
(***************************************************************************)
EXTENDS Integers, Sequences, FiniteSets, TLC

(***************************************************************************)
(* JavaScript values                                                       *)
(***************************************************************************)

\* The JavaScript value `undefined` (a missing property, an unset optional).
Undefined == "<undefined>"

\* JavaScript null.
Null == "<null>"

\* undefined where an object (a Record, a RoleDetails, a modal state) is
\* expected, null where a Role is expected, and undefined where an array of
\* strings is expected.
UndefinedObject == [k \in {Undefined} |-> Undefined]
NullObject == [k \in {Null} |-> Null]
UndefinedArray == <<Undefined>>

\* JavaScript truthiness of a string-or-undefined value.
Truthy(v) == v # Undefined /\ v # Null /\ v # ""

\* a || b on string-or-undefined values.
OrElse(a, b) == IF Truthy(a) THEN a ELSE b

\* Names every plain object inherits from Object.prototype; obj[key] and
\* (key in obj) find them although they are not own keys.
ObjectPrototypeKeys ==
  {"constructor", "toString", "valueOf", "hasOwnProperty", "isPrototypeOf",
   "propertyIsEnumerable", "toLocaleString", "__proto__"}

\* Marker for a value found on the prototype chain (a function object).
Inherited == "<inherited>"

\* obj[key] for a Record<string, string>.
Lookup(obj, key) ==
  IF key \in DOMAIN obj THEN obj[key]
  ELSE IF key \in ObjectPrototypeKeys THEN Inherited
  ELSE Undefined

\* (key in obj) for a Record<string, string>.
HasKey(obj, key) == key \in DOMAIN obj \/ key \in ObjectPrototypeKeys

\* The empty object {}.
EmptyObject == [k \in {} |-> ""]

\* { ...obj, [key]: value }
WithKey(obj, key, value) ==
  [k \in DOMAIN obj \cup {key} |-> IF k = key THEN value ELSE obj[k]]

\* delete obj[key]
WithoutKey(obj, key) == [k \in DOMAIN obj \ {key} |-> obj[k]]

\* Math.round(num / den) for a non-negative rational: halves round up.
MathRound(num, den) == (2 * num + den) \div (2 * den)

\* Math.min
Min(a, b) == IF a < b THEN a ELSE b

\* array.map(f)
MapSeq(s, f(_)) == [i \in 1..Len(s) |-> f(s[i])]

\* array.filter(test).length
CountSeq(s, test(_)) == Len(SelectSeq(s, test))

\* Variant of slice that keeps one element less.
Slice_OneShort(s, n) == SubSeq(s, 1, Min(Len(s), n - 1))

\* array.slice(0, n)
Slice(s, n) == SubSeq(s, 1, Min(n, Len(s)))

\* The set of elements of an array.
Range(s) == {s[i] : i \in 1..Len(s)}

(***************************************************************************)
(* Permission catalog (export const permissions)                           *)
(***************************************************************************)

PermissionCatalog ==
  <<
    [apiName |-> "account_admin_management_operations", productCategory |-> "Account & Connect",
     taskCategories |-> <<"Configure settings">>,
     actions |-> "write", operationType |-> "Write", riskLevel |-> "Critical",
     hasPII |-> FALSE, hasFinancialData |-> FALSE, hasPaymentCredentials |-> FALSE,
     roleAccess |-> [super_admin |-> "write", admin |-> "write", developer |-> "write"]],
    [apiName |-> "account_operations", productCategory |-> "Account & Connect",
     taskCategories |-> <<"Configure settings", "Monitor platform">>,
     actions |-> "read, write", operationType |-> "Read + Write", riskLevel |-> "Standard",
     hasPII |-> FALSE, hasFinancialData |-> FALSE, hasPaymentCredentials |-> FALSE,
     roleAccess |-> [super_admin |-> "write", admin |-> "write", view_only |-> "read", support |-> "write", support_associate |-> "write", analyst |-> "read", refund_analyst |-> "read", sandbox_admin |-> "read"]],
    [apiName |-> "accounts_kyc_basic", productCategory |-> "Account & Connect",
     taskCategories |-> <<"Verify identity", "Handle customer issues">>,
     actions |-> "read", operationType |-> "Read-only", riskLevel |-> "Standard",
     hasPII |-> TRUE, hasFinancialData |-> FALSE, hasPaymentCredentials |-> FALSE,
     roleAccess |-> [super_admin |-> "read", admin |-> "read", view_only |-> "read", identity_analyst |-> "read"]],
    [apiName |-> "application_fee_operations", productCategory |-> "Account & Connect",
     taskCategories |-> <<"Monitor platform", "Export & analyze data">>,
     actions |-> "read, write", operationType |-> "Read + Write", riskLevel |-> "Standard",
     hasPII |-> FALSE, hasFinancialData |-> TRUE, hasPaymentCredentials |-> FALSE,
     roleAccess |-> [super_admin |-> "write", admin |-> "write", view_only |-> "read", support |-> "write", analyst |-> "write"]],
    [apiName |-> "connect_settings", productCategory |-> "Account & Connect",
     taskCategories |-> <<"Configure settings", "Monitor platform">>,
     actions |-> "write", operationType |-> "Write", riskLevel |-> "Elevated",
     hasPII |-> FALSE, hasFinancialData |-> FALSE, hasPaymentCredentials |-> FALSE,
     roleAccess |-> [super_admin |-> "write", admin |-> "write", support |-> "write", support_associate |-> "write"]],
    [apiName |-> "connected_account_operations", productCategory |-> "Account & Connect",
     taskCategories |-> <<"Monitor platform", "Handle customer issues">>,
     actions |-> "read, write", operationType |-> "Read + Write", riskLevel |-> "Standard",
     hasPII |-> TRUE, hasFinancialData |-> FALSE, hasPaymentCredentials |-> FALSE,
     roleAccess |-> [super_admin |-> "write", admin |-> "write", view_only |-> "read", developer |-> "write", support |-> "write", support_associate |-> "write", analyst |-> "read"]],
    [apiName |-> "embeddable_key_admin", productCategory |-> "Account & Connect",
     taskCategories |-> <<"Configure settings", "Develop & integrate">>,
     actions |-> "write", operationType |-> "Write", riskLevel |-> "Elevated",
     hasPII |-> FALSE, hasFinancialData |-> FALSE, hasPaymentCredentials |-> TRUE,
     roleAccess |-> [super_admin |-> "write", admin |-> "write"]],
    [apiName |-> "sandbox_creation", productCategory |-> "Account & Connect",
     taskCategories |-> <<"Develop & integrate">>,
     actions |-> "write", operationType |-> "Write", riskLevel |-> "Standard",
     hasPII |-> FALSE, hasFinancialData |-> FALSE, hasPaymentCredentials |-> FALSE,
     roleAccess |-> [super_admin |-> "write", admin |-> "write", developer |-> "write", sandbox_admin |-> "write"]],
    [apiName |-> "team_management", productCategory |-> "Account & Connect",
     taskCategories |-> <<"Manage team access">>,
     actions |-> "read, write", operationType |-> "Read + Write", riskLevel |-> "Elevated",
     hasPII |-> FALSE, hasFinancialData |-> FALSE, hasPaymentCredentials |-> FALSE,
     roleAccess |-> [super_admin |-> "write", admin |-> "write", view_only |-> "read", iam_admin |-> "write"]],
    [apiName |-> "sensitive_resources", productCategory |-> "Admin",
     taskCategories |-> <<"Develop & integrate", "Configure settings">>,
     actions |-> "read", operationType |-> "Read-only", riskLevel |-> "Standard",
     hasPII |-> FALSE, hasFinancialData |-> FALSE, hasPaymentCredentials |-> TRUE,
     roleAccess |-> [super_admin |-> "read", admin |-> "read", view_only |-> "read", developer |-> "read"]],
    [apiName |-> "billing_operations", productCategory |-> "Billing & Subscriptions",
     taskCategories |-> <<"Manage billing", "Export & analyze data">>,
     actions |-> "read, write", operationType |-> "Read + Write", riskLevel |-> "Standard",
     hasPII |-> FALSE, hasFinancialData |-> TRUE, hasPaymentCredentials |-> FALSE,
     roleAccess |-> [super_admin |-> "write", admin |-> "write", view_only |-> "read", developer |-> "write", analyst |-> "write"]],
    [apiName |-> "billing_settings_operations", productCategory |-> "Billing & Subscriptions",
     taskCategories |-> <<"Configure settings", "Manage billing">>,
     actions |-> "read, write", operationType |-> "Read + Write", riskLevel |-> "Elevated",
     hasPII |-> FALSE, hasFinancialData |-> FALSE, hasPaymentCredentials |-> FALSE,
     roleAccess |-> [super_admin |-> "write", admin |-> "write", view_only |-> "read", developer |-> "write", support |-> "write", support_associate |-> "write", analyst |-> "write", refund_analyst |-> "read", dispute_analyst |-> "read"]],
    [apiName |-> "credit_note_operations", productCategory |-> "Billing & Subscriptions",
     taskCategories |-> <<"Handle customer issues", "Manage billing">>,
     actions |-> "read, write", operationType |-> "Read + Write", riskLevel |-> "Standard",
     hasPII |-> FALSE, hasFinancialData |-> TRUE, hasPaymentCredentials |-> FALSE,
     roleAccess |-> [super_admin |-> "write", admin |-> "write", view_only |-> "read", developer |-> "write", support |-> "write", support_associate |-> "write", analyst |-> "write", refund_analyst |-> "write"]],
    [apiName |-> "invoice_operations", productCategory |-> "Billing & Subscriptions",
     taskCategories |-> <<"Handle customer issues", "Manage billing", "Export & analyze data">>,
     actions |-> "read, write", operationType |-> "Read + Write", riskLevel |-> "Standard",
     hasPII |-> FALSE, hasFinancialData |-> TRUE, hasPaymentCredentials |-> FALSE,
     roleAccess |-> [super_admin |-> "write", admin |-> "write", view_only |-> "read", developer |-> "write", support |-> "write", support_associate |-> "write", analyst |-> "write", refund_analyst |-> "read", dispute_analyst |-> "read"]],
    [apiName |-> "subscription_operations", productCategory |-> "Billing & Subscriptions",
     taskCategories |-> <<"Handle customer issues", "Manage billing">>,
     actions |-> "read, write", operationType |-> "Read + Write", riskLevel |-> "Standard",
     hasPII |-> FALSE, hasFinancialData |-> TRUE, hasPaymentCredentials |-> FALSE,
     roleAccess |-> [super_admin |-> "write", admin |-> "write", view_only |-> "read", developer |-> "write", support |-> "write", support_associate |-> "write", analyst |-> "write", refund_analyst |-> "read", dispute_analyst |-> "read"]],
    [apiName |-> "capital_operations", productCategory |-> "Capital & Treasury",
     taskCategories |-> <<"Monitor financials", "Export & analyze data">>,
     actions |-> "read, write", operationType |-> "Read + Write", riskLevel |-> "Standard",
     hasPII |-> FALSE, hasFinancialData |-> TRUE, hasPaymentCredentials |-> FALSE,
     roleAccess |-> [super_admin |-> "write", admin |-> "write", view_only |-> "read", developer |-> "write", analyst |-> "write"]],
    [apiName |-> "treasury_operations", productCategory |-> "Capital & Treasury",
     taskCategories |-> <<"Monitor financials", "Export & analyze data">>,
     actions |-> "read, write", operationType |-> "Read + Write", riskLevel |-> "Standard",
     hasPII |-> FALSE, hasFinancialData |-> TRUE, hasPaymentCredentials |-> FALSE,
     roleAccess |-> [super_admin |-> "write", admin |-> "write", view_only |-> "read", analyst |-> "read"]],
    [apiName |-> "identity_verification_operations", productCategory |-> "Compliance & Identity",
     taskCategories |-> <<"Verify identity", "Handle customer issues">>,
     actions |-> "read, write", operationType |-> "Read + Write", riskLevel |-> "Standard",
     hasPII |-> TRUE, hasFinancialData |-> FALSE, hasPaymentCredentials |-> FALSE,
     roleAccess |-> [super_admin |-> "write", admin |-> "write", view_only |-> "read", developer |-> "write", analyst |-> "write", identity_analyst |-> "write"]],
    [apiName |-> "climate_operations", productCategory |-> "Crypto & Climate",
     taskCategories |-> <<"Process transactions", "Configure settings">>,
     actions |-> "read, write", operationType |-> "Read + Write", riskLevel |-> "Standard",
     hasPII |-> FALSE, hasFinancialData |-> FALSE, hasPaymentCredentials |-> FALSE,
     roleAccess |-> [super_admin |-> "write", admin |-> "write", view_only |-> "read", developer |-> "write", analyst |-> "write"]],
    [apiName |-> "crypto_operations", productCategory |-> "Crypto & Climate",
     taskCategories |-> <<"Process transactions">>,
     actions |-> "read, write", operationType |-> "Read + Write", riskLevel |-> "Standard",
     hasPII |-> FALSE, hasFinancialData |-> FALSE, hasPaymentCredentials |-> FALSE,
     roleAccess |-> [super_admin |-> "write", admin |-> "write", view_only |-> "read", developer |-> "write", analyst |-> "write"]],
    [apiName |-> "customer_operations", productCategory |-> "Customers",
     taskCategories |-> <<"Handle customer issues", "Export & analyze data">>,
     actions |-> "read, write", operationType |-> "Read + Write", riskLevel |-> "Standard",
     hasPII |-> TRUE, hasFinancialData |-> FALSE, hasPaymentCredentials |-> FALSE,
     roleAccess |-> [super_admin |-> "write", admin |-> "write", view_only |-> "read", developer |-> "write", support |-> "write", support_associate |-> "write", analyst |-> "write", refund_analyst |-> "read", dispute_analyst |-> "read"]],
    [apiName |-> "customer_portal_operations", productCategory |-> "Customers",
     taskCategories |-> <<"Configure settings", "Handle customer issues">>,
     actions |-> "write", operationType |-> "Write", riskLevel |-> "Standard",
     hasPII |-> FALSE, hasFinancialData |-> FALSE, hasPaymentCredentials |-> FALSE,
     roleAccess |-> [super_admin |-> "write", admin |-> "write", analyst |-> "write"]],
    [apiName |-> "dispute_operations", productCategory |-> "Disputes & Fraud Prevention",
     taskCategories |-> <<"Handle customer issues", "Manage disputes & fraud">>,
     actions |-> "read, write", operationType |-> "Read + Write", riskLevel |-> "Standard",
     hasPII |-> FALSE, hasFinancialData |-> FALSE, hasPaymentCredentials |-> FALSE,
     roleAccess |-> [super_admin |-> "write", admin |-> "write", view_only |-> "read", developer |-> "write", support |-> "write", support_associate |-> "write", analyst |-> "write", refund_analyst |-> "read", dispute_analyst |-> "write"]],
    [apiName |-> "radar_operations", productCategory |-> "Disputes & Fraud Prevention",
     taskCategories |-> <<"Configure settings", "Manage disputes & fraud">>,
     actions |-> "read, write", operationType |-> "Read + Write", riskLevel |-> "Standard",
     hasPII |-> FALSE, hasFinancialData |-> FALSE, hasPaymentCredentials |-> FALSE,
     roleAccess |-> [super_admin |-> "write", admin |-> "write", view_only |-> "read", developer |-> "write", support |-> "read", support_associate |-> "read", analyst |-> "read", refund_analyst |-> "read"]],
    [apiName |-> "review_operations", productCategory |-> "Disputes & Fraud Prevention",
     taskCategories |-> <<"Handle customer issues", "Manage disputes & fraud">>,
     actions |-> "write", operationType |-> "Write", riskLevel |-> "Standard",
     hasPII |-> FALSE, hasFinancialData |-> FALSE, hasPaymentCredentials |-> FALSE,
     roleAccess |-> [super_admin |-> "write", admin |-> "write", support |-> "write", support_associate |-> "write", analyst |-> "write"]],
    [apiName |-> "balance_operations", productCategory |-> "Financial Operations",
     taskCategories |-> <<"Monitor financials", "Export & analyze data">>,
     actions |-> "read", operationType |-> "Read-only", riskLevel |-> "Standard",
     hasPII |-> FALSE, hasFinancialData |-> TRUE, hasPaymentCredentials |-> FALSE,
     roleAccess |-> [super_admin |-> "read", admin |-> "read", view_only |-> "read", support |-> "read", support_associate |-> "read", analyst |-> "read", refund_analyst |-> "read", dispute_analyst |-> "read"]],
    [apiName |-> "balance_transfer_operations", productCategory |-> "Financial Operations",
     taskCategories |-> <<"Transfer funds">>,
     actions |-> "write", operationType |-> "Write", riskLevel |-> "Critical",
     hasPII |-> FALSE, hasFinancialData |-> TRUE, hasPaymentCredentials |-> FALSE,
     roleAccess |-> [super_admin |-> "write", admin |-> "write", analyst |-> "write"]],
    [apiName |-> "payout_operations", productCategory |-> "Financial Operations",
     taskCategories |-> <<"Transfer funds", "Monitor financials">>,
     actions |-> "read, write", operationType |-> "Read + Write", riskLevel |-> "Standard",
     hasPII |-> FALSE, hasFinancialData |-> TRUE, hasPaymentCredentials |-> FALSE,
     roleAccess |-> [super_admin |-> "write", admin |-> "write", view_only |-> "read", analyst |-> "write"]],
    [apiName |-> "transfer_operations", productCategory |-> "Financial Operations",
     taskCategories |-> <<"Transfer funds", "Monitor financials">>,
     actions |-> "read, write", operationType |-> "Read + Write", riskLevel |-> "Standard",
     hasPII |-> FALSE, hasFinancialData |-> TRUE, hasPaymentCredentials |-> FALSE,
     roleAccess |-> [super_admin |-> "write", admin |-> "write", view_only |-> "read", analyst |-> "write"]],
    [apiName |-> "data_export_operations", productCategory |-> "Integrations & Data",
     taskCategories |-> <<"Export & analyze data">>,
     actions |-> "read", operationType |-> "Read-only", riskLevel |-> "Standard",
     hasPII |-> TRUE, hasFinancialData |-> TRUE, hasPaymentCredentials |-> FALSE,
     roleAccess |-> [super_admin |-> "read", admin |-> "read", view_only |-> "read", developer |-> "read", analyst |-> "read"]],
    [apiName |-> "dev_integration", productCategory |-> "Integrations & Data",
     taskCategories |-> <<"Develop & integrate">>,
     actions |-> "read, write", operationType |-> "Read + Write", riskLevel |-> "Standard",
     hasPII |-> FALSE, hasFinancialData |-> FALSE, hasPaymentCredentials |-> FALSE,
     roleAccess |-> [super_admin |-> "write", admin |-> "write", view_only |-> "read", developer |-> "write", analyst |-> "write"]],
    [apiName |-> "reporting_operations", productCategory |-> "Integrations & Data",
     taskCategories |-> <<"Export & analyze data", "Monitor financials">>,
     actions |-> "read, write", operationType |-> "Read + Write", riskLevel |-> "Standard",
     hasPII |-> FALSE, hasFinancialData |-> TRUE, hasPaymentCredentials |-> FALSE,
     roleAccess |-> [super_admin |-> "write", admin |-> "write", view_only |-> "read, write", developer |-> "write", support |-> "write", support_associate |-> "write", analyst |-> "write", refund_analyst |-> "read"]],
    [apiName |-> "stripe_apps_development", productCategory |-> "Integrations & Data",
     taskCategories |-> <<"Develop & integrate">>,
     actions |-> "read, write", operationType |-> "Read + Write", riskLevel |-> "Standard",
     hasPII |-> FALSE, hasFinancialData |-> FALSE, hasPaymentCredentials |-> FALSE,
     roleAccess |-> [super_admin |-> "write", admin |-> "write", view_only |-> "read", developer |-> "write", analyst |-> "write"]],
    [apiName |-> "issuing_card_operations", productCategory |-> "Issuing & Cards",
     taskCategories |-> <<"Handle customer issues", "Manage cards">>,
     actions |-> "read, write", operationType |-> "Read + Write", riskLevel |-> "Standard",
     hasPII |-> FALSE, hasFinancialData |-> FALSE, hasPaymentCredentials |-> TRUE,
     roleAccess |-> [super_admin |-> "write", admin |-> "write", view_only |-> "read", support |-> "write", support_associate |-> "read, write", analyst |-> "write", issuing_support_agent |-> "write"]],
    [apiName |-> "charge", productCategory |-> "Payments",
     taskCategories |-> <<"Handle customer issues", "Export & analyze data">>,
     actions |-> "read", operationType |-> "Read-only", riskLevel |-> "Standard",
     hasPII |-> FALSE, hasFinancialData |-> FALSE, hasPaymentCredentials |-> FALSE,
     roleAccess |-> [view_only |-> "read", refund_analyst |-> "read", dispute_analyst |-> "read"]],
    [apiName |-> "charge_operations", productCategory |-> "Payments",
     taskCategories |-> <<"Handle customer issues", "Process transactions">>,
     actions |-> "write", operationType |-> "Write", riskLevel |-> "Standard",
     hasPII |-> FALSE, hasFinancialData |-> TRUE, hasPaymentCredentials |-> FALSE,
     roleAccess |-> [super_admin |-> "write", admin |-> "write", developer |-> "write", support |-> "write", support_associate |-> "write", analyst |-> "write"]],
    [apiName |-> "payment_intent", productCategory |-> "Payments",
     taskCategories |-> <<"Handle customer issues", "Export & analyze data">>,
     actions |-> "read", operationType |-> "Read-only", riskLevel |-> "Standard",
     hasPII |-> FALSE, hasFinancialData |-> FALSE, hasPaymentCredentials |-> FALSE,
     roleAccess |-> [view_only |-> "read", refund_analyst |-> "read", dispute_analyst |-> "read"]],
    [apiName |-> "payment_intent_operations", productCategory |-> "Payments",
     taskCategories |-> <<"Handle customer issues", "Process transactions">>,
     actions |-> "write", operationType |-> "Write", riskLevel |-> "Standard",
     hasPII |-> FALSE, hasFinancialData |-> FALSE, hasPaymentCredentials |-> FALSE,
     roleAccess |-> [super_admin |-> "write", admin |-> "write", developer |-> "write", support |-> "write", support_associate |-> "write", analyst |-> "write"]],
    [apiName |-> "payment_processing", productCategory |-> "Payments",
     taskCategories |-> <<"Process transactions", "Configure settings">>,
     actions |-> "read, write", operationType |-> "Read + Write", riskLevel |-> "Standard",
     hasPII |-> FALSE, hasFinancialData |-> FALSE, hasPaymentCredentials |-> TRUE,
     roleAccess |-> [super_admin |-> "write", admin |-> "write", view_only |-> "read", developer |-> "write", support |-> "write", support_associate |-> "write", analyst |-> "write", refund_analyst |-> "read", dispute_analyst |-> "read"]],
    [apiName |-> "checkout_operations", productCategory |-> "Products & Orders",
     taskCategories |-> <<"Process transactions", "Configure settings">>,
     actions |-> "read, write", operationType |-> "Read + Write", riskLevel |-> "Standard",
     hasPII |-> FALSE, hasFinancialData |-> FALSE, hasPaymentCredentials |-> FALSE,
     roleAccess |-> [super_admin |-> "write", admin |-> "write", view_only |-> "read", developer |-> "write", support |-> "write", support_associate |-> "read", analyst |-> "write"]],
    [apiName |-> "order_operations", productCategory |-> "Products & Orders",
     taskCategories |-> <<"Handle customer issues", "Process transactions">>,
     actions |-> "read, write", operationType |-> "Read + Write", riskLevel |-> "Standard",
     hasPII |-> FALSE, hasFinancialData |-> FALSE, hasPaymentCredentials |-> FALSE,
     roleAccess |-> [super_admin |-> "write", admin |-> "write", view_only |-> "read", developer |-> "write", support |-> "write", support_associate |-> "write", analyst |-> "write", refund_analyst |-> "read", dispute_analyst |-> "read"]],
    [apiName |-> "order_refund_operations", productCategory |-> "Products & Orders",
     taskCategories |-> <<"Handle customer issues">>,
     actions |-> "write", operationType |-> "Write", riskLevel |-> "Standard",
     hasPII |-> FALSE, hasFinancialData |-> TRUE, hasPaymentCredentials |-> FALSE,
     roleAccess |-> [super_admin |-> "write", admin |-> "write", analyst |-> "write", refund_analyst |-> "write"]],
    [apiName |-> "product_operations", productCategory |-> "Products & Orders",
     taskCategories |-> <<"Manage catalog", "Configure settings">>,
     actions |-> "read, write", operationType |-> "Read + Write", riskLevel |-> "Standard",
     hasPII |-> FALSE, hasFinancialData |-> FALSE, hasPaymentCredentials |-> FALSE,
     roleAccess |-> [super_admin |-> "write", admin |-> "write", view_only |-> "read", support |-> "write", support_associate |-> "read", analyst |-> "write", refund_analyst |-> "read", dispute_analyst |-> "read"]],
    [apiName |-> "promotion_operations", productCategory |-> "Products & Orders",
     taskCategories |-> <<"Manage catalog", "Configure settings">>,
     actions |-> "read, write", operationType |-> "Read + Write", riskLevel |-> "Standard",
     hasPII |-> FALSE, hasFinancialData |-> FALSE, hasPaymentCredentials |-> FALSE,
     roleAccess |-> [super_admin |-> "write", admin |-> "write", view_only |-> "read", developer |-> "write", support |-> "write", support_associate |-> "write", analyst |-> "write"]],
    [apiName |-> "dashboard_baseline", productCategory |-> "Support & Operations",
     taskCategories |-> <<"All tasks">>,
     actions |-> "read", operationType |-> "Read-only", riskLevel |-> "Standard",
     hasPII |-> FALSE, hasFinancialData |-> FALSE, hasPaymentCredentials |-> FALSE,
     roleAccess |-> [super_admin |-> "read", admin |-> "read", view_only |-> "read", developer |-> "read", support |-> "read", support_associate |-> "read", analyst |-> "read", refund_analyst |-> "read", dispute_analyst |-> "read", issuing_support_agent |-> "read", tax_analyst |-> "read", identity_analyst |-> "read", iam_admin |-> "read", sandbox_admin |-> "read"]],
    [apiName |-> "settings_security", productCategory |-> "Support & Operations",
     taskCategories |-> <<"Configure settings", "Manage team access">>,
     actions |-> "write", operationType |-> "Write", riskLevel |-> "Elevated",
     hasPII |-> FALSE, hasFinancialData |-> FALSE, hasPaymentCredentials |-> TRUE,
     roleAccess |-> [iam_admin |-> "write"]],
    [apiName |-> "tax_automation_operations", productCategory |-> "Tax",
     taskCategories |-> <<"Configure settings", "Monitor tax compliance">>,
     actions |-> "read, write", operationType |-> "Read + Write", riskLevel |-> "Standard",
     hasPII |-> FALSE, hasFinancialData |-> FALSE, hasPaymentCredentials |-> FALSE,
     roleAccess |-> [super_admin |-> "write", admin |-> "write", view_only |-> "read", developer |-> "write", support |-> "write", analyst |-> "write", tax_analyst |-> "write"]],
    [apiName |-> "tax_filing_operations", productCategory |-> "Tax",
     taskCategories |-> <<"Configure settings", "Monitor tax compliance">>,
     actions |-> "read, write", operationType |-> "Read + Write", riskLevel |-> "Standard",
     hasPII |-> TRUE, hasFinancialData |-> TRUE, hasPaymentCredentials |-> FALSE,
     roleAccess |-> [super_admin |-> "write", admin |-> "write", view_only |-> "read", developer |-> "read", analyst |-> "write", tax_analyst |-> "write"]],
    [apiName |-> "terminal_infrastructure", productCategory |-> "Terminal",
     taskCategories |-> <<"Monitor hardware">>,
     actions |-> "read", operationType |-> "Read-only", riskLevel |-> "Standard",
     hasPII |-> FALSE, hasFinancialData |-> FALSE, hasPaymentCredentials |-> FALSE,
     roleAccess |-> [super_admin |-> "read", admin |-> "read", view_only |-> "read", support |-> "read", support_associate |-> "read", analyst |-> "read"]],
    [apiName |-> "terminal_operations", productCategory |-> "Terminal",
     taskCategories |-> <<"Manage hardware", "Process transactions">>,
     actions |-> "write", operationType |-> "Write", riskLevel |-> "Standard",
     hasPII |-> FALSE, hasFinancialData |-> FALSE, hasPaymentCredentials |-> FALSE,
     roleAccess |-> [super_admin |-> "write", admin |-> "write", analyst |-> "write"]]
  >>


\* apiName of the permission every role must hold (REQUIRED_PERMISSION).
REQUIRED_PERMISSION == "dashboard_baseline"

(***************************************************************************)
(* Role catalog                                                            *)
(***************************************************************************)

\* roleDetailsMap[id]: the static details of a built-in role.  Only the
\* description is read by the page logic; its text is represented by its key.
roleDetailsMap(id) == [description |-> "roleDetailsMap." \o id]

\* userCounts
userCounts ==
  [super_admin |-> 2, admin |-> 4, iam_admin |-> 1, developer |-> 12, analyst |-> 8,
   dispute_analyst |-> 3, refund_analyst |-> 4, support |-> 18, support_associate |-> 15,
   view_only |-> 7, issuing_support_agent |-> 3, tax_analyst |-> 2, identity_analyst |-> 2,
   sandbox_admin |-> 5]

\* withDetails(id, name, category).  The optional properties of Role that
\* a built-in role does not carry read as undefined.
withDetails(id, name, category) ==
  [id |-> id, name |-> name, category |-> category,
   details |-> roleDetailsMap(id), userCount |-> userCounts[id],
   permissionApiNames |-> UndefinedArray, permissionAccess |-> UndefinedObject,
   customDescription |-> Undefined]

\* roleCategories
roleCategories ==
  <<[name |-> "Admin",
     roles |-> <<withDetails("super_admin", "Super administrator", "Admin"),
                 withDetails("admin", "Administrator", "Admin"),
                 withDetails("iam_admin", "IAM Admin", "Admin")>>],
    [name |-> "Developer",
     roles |-> <<withDetails("developer", "Developer", "Developer")>>],
    [name |-> "Payments",
     roles |-> <<withDetails("analyst", "Analyst", "Payments"),
                 withDetails("dispute_analyst", "Dispute analyst", "Payments"),
                 withDetails("refund_analyst", "Refund analyst", "Payments")>>],
    [name |-> "Support",
     roles |-> <<withDetails("support", "Support specialist", "Support"),
                 withDetails("support_associate", "Support associate", "Support")>>],
    [name |-> "Specialists",
     roles |-> <<withDetails("issuing_support_agent", "Issuing support agent", "Specialists"),
                 withDetails("tax_analyst", "Tax analyst", "Specialists"),
                 withDetails("identity_analyst", "Identity analyst", "Specialists")>>],
    [name |-> "View only",
     roles |-> <<withDetails("view_only", "View only", "View only")>>],
    [name |-> "Sandbox",
     roles |-> <<withDetails("sandbox_admin", "Sandbox administrator", "Sandbox")>>]>>

RECURSIVE FlatMapRoles(_, _)
\* categories.flatMap(cat => cat.roles), from category n on.
FlatMapRoles(categories, n) ==
  IF n > Len(categories) THEN <<>>
  ELSE categories[n].roles \o FlatMapRoles(categories, n + 1)

\* allRoles: the built-in roles, flattened in declaration order.
allRoles == FlatMapRoles(roleCategories, 1)

\* The ids of the built-in roles.
BuiltinRoleIds == {allRoles[i].id : i \in 1..Len(allRoles)}

\* The built-in role with the given id.
BuiltinRole(id) == allRoles[CHOOSE i \in 1..Len(allRoles) : allRoles[i].id = id]

(***************************************************************************)
(* State                                                                   *)
(***************************************************************************)

VARIABLES
  permissions,           \* the module-level catalog array of the data module
  selectedPermissions,   \* argument of the last generateRiskAssessment call
  assessment,            \* its result
  grouping,              \* the last grouping call: function, dimension, result
  resolution,            \* the last resolver call: function, arguments, result
  roleDetails,           \* result of the last generateRoleDetails call
  localStorage,          \* value stored under the key "customRoles"
  selectedRole,          \* RolesPermissionsPage: selectedRole
  expandedCategory,      \* RolesPermissionsPage: expandedCategory
  customRoles,           \* RolesPermissionsPage: customRoles
  isCustomizeModalOpen,  \* RolesPermissionsPage: isCustomizeModalOpen
  isCreateModalOpen,     \* RolesPermissionsPage: isCreateModalOpen
  modalMode,             \* RolesPermissionsPage: modalMode
  sandboxMode,           \* RolesPermissionsPage: sandboxMode
  customizeModal,        \* CustomizeRoleModal: its useState values
  createModal,           \* CreateRoleModal: its useState values
  timers,                \* pending setTimeout callbacks, oldest first
  now,                   \* Date.now()
  pendingEffects,        \* useEffect callbacks of the page still to run
  pendingState,          \* setCustomRoles value queued by an effect
  lastSave,              \* history: the last change of customRoles
  loaded,                \* history: what the load effect read, until the next gesture
  renderError,           \* a render of the page has thrown; nothing is shown
  lastGesture,           \* history: the last user gesture
  addedInSession,        \* history: roles the open builder modal has added
  gestures               \* history: number of user gestures so far

riskVars == <<selectedPermissions, assessment, grouping, resolution, roleDetails>>

pageVars ==
  <<localStorage, selectedRole, expandedCategory, customRoles, isCustomizeModalOpen,
    isCreateModalOpen, modalMode, sandboxMode, customizeModal, createModal, timers,
    now, pendingEffects, pendingState, lastSave, loaded, renderError, lastGesture,
    addedInSession>>

vars == <<permissions, riskVars, pageVars, gestures>>

startVars == <<loaded, renderError>>

\* No setCustomRoles value is queued. Otherwise kind tells what JSON.parse
\* returned ("array", "null", "object") and value holds the array.
NothingQueued == [queued |-> FALSE, kind |-> "array", value |-> <<>>]

\* No change of customRoles is being followed. Otherwise phase tells the
\* last change ("saved": a role was added, then "persisted" once the save
\* effect has run and "reloaded" after a reload; "updated"; "deleted"),
\* index the position of the added role and resolved what the main page
\* resolved for it when it was added.
NoSave == [phase |-> "none", index |-> 0, resolved |-> {}]

\* No builder-modal state was taken into the sandbox.
NoEntry == [source |-> "none", roleName |-> "", customDescription |-> "",
            permissionAccess |-> <<>>]

\* No user gesture yet. Otherwise kind tells the gesture ("reset": Reset of
\* the create modal; "enter", "switch", "exit": the sandbox gestures; "other")
\* and entry what the builder modal held when the sandbox was entered from
\* it, kept over the sandbox gestures that follow.
NoGesture == [kind |-> "none", entry |-> NoEntry]

\* sandboxMode as constructed.
NoSandbox ==
  [active |-> FALSE, role |-> NullObject, unsavedRole |-> NullObject,
   sourceModal |-> Undefined, modalState |-> UndefinedObject]
(***************************************************************************)
(* Access Resolver                                                         *)
(***************************************************************************)

\* getAllPermissions(): the catalog array itself.
getAllPermissions == permissions

\* Variant of the view that leaves the catalog record as it is.
AdjustForRole_Unadjusted(p, roleId) == p

\* The view getPermissionsForRole maps a granted catalog record to.
AdjustForRole(p, roleId) ==
  LET roleAccess == Lookup(p.roleAccess, roleId)
  IN  IF roleAccess = "read" /\ p.operationType # "Read-only"
      THEN [p EXCEPT !.operationType = "Read-only", !.actions = "read"]
      ELSE p

\* Variant of getPermissionsForRole without the filter on roleAccess.
getPermissionsForRole_Unfiltered(roleId) ==
  LET adjust(p) == AdjustForRole(p, roleId)
  IN  MapSeq(permissions, adjust)

\* getPermissionsForRole(roleId)
getPermissionsForRole(roleId) ==
  LET granted(p) == Truthy(Lookup(p.roleAccess, roleId))
      adjust(p) == AdjustForRole(p, roleId)
  IN  MapSeq(SelectSeq(permissions, granted), adjust)

\* Variant of getPermissionsByApiNames that looks every name up and keeps
\* what the lookup yields, found or not.
getPermissionsByApiNames_Propagating(apiNames) ==
  LET find(apiName) ==
        IF \E j \in DOMAIN permissions : permissions[j].apiName = apiName
        THEN permissions[CHOOSE j \in DOMAIN permissions : permissions[j].apiName = apiName]
        ELSE UndefinedObject
  IN  MapSeq(apiNames, find)

\* getPermissionsByApiNames(apiNames)
getPermissionsByApiNames(apiNames) ==
  LET inSet(p) == p.apiName \in Range(apiNames)
  IN  SelectSeq(permissions, inSet)

(***************************************************************************)
(* Risk Assessment Engine                                                  *)
(***************************************************************************)

\* Fixed warnings, in the table's key order.
HIGH_RISK_PERMISSIONS ==
  <<[apiName |-> "balance_transfer_operations", warning |-> "Can transfer funds between accounts"],
    [apiName |-> "account_admin_management_operations", warning |-> "Can perform destructive account operations"],
    [apiName |-> "team_management", warning |-> "Can invite/remove team members and change roles"],
    [apiName |-> "settings_security", warning |-> "Can modify security settings and 2FA"],
    [apiName |-> "sensitive_resources", warning |-> "Has access to API keys and secrets"],
    [apiName |-> "embeddable_key_admin", warning |-> "Can manage embeddable keys"],
    [apiName |-> "payout_operations", warning |-> "Can create and manage payouts"]>>

\* Variant of the write-bearing test that overlooks "Read + Write".
IsWriteBearing_WriteOnly(p) == p.operationType = "Write"

\* p.operationType === "Write" || p.operationType === "Read + Write"
IsWriteBearing(p) == p.operationType = "Write" \/ p.operationType = "Read + Write"

\* A conditional push: <<x>> if cond holds, else nothing.
PushIf(cond, x) == IF cond THEN <<x>> ELSE <<>>

\* factors.sort by riskOrder (Array.prototype.sort is stable).
SortFactors(factors) ==
  LET high(f) == f.level = "High"
      medium(f) == f.level = "Medium"
      low(f) == f.level = "Low"
  IN  SelectSeq(factors, high) \o SelectSeq(factors, medium) \o SelectSeq(factors, low)

\* Variant of sections 1 and 2 that weighs a Critical write-bearing
\* permission like an Elevated one.
AccumulatedScore_LightCritical(sel) ==
  LET isReadOnly(p) == p.operationType = "Read-only"
      isReadOnlyRole == CountSeq(sel, isReadOnly) = Len(sel)
      writePermissions == SelectSeq(sel, IsWriteBearing)
      risky(p) == p.riskLevel \in {"Critical", "Elevated"}
      pii(p) == p.hasPII
      fin(p) == p.hasFinancialData
      cred(p) == p.hasPaymentCredentials
      multiplier == IF isReadOnlyRole THEN 2 ELSE 10
  IN  CountSeq(writePermissions, risky) * 15
      + MathRound(CountSeq(sel, cred) * 20 * multiplier, 10)
      + MathRound(CountSeq(sel, fin) * 10 * multiplier, 10)
      + MathRound(CountSeq(sel, pii) * 8 * multiplier, 10)

\* The score accumulated by sections 1 and 2 (risk level and sensitivity),
\* i.e. totalScore on entry to the operation type analysis.
AccumulatedScore(sel) ==
  LET isReadOnly(p) == p.operationType = "Read-only"
      isReadOnlyRole == CountSeq(sel, isReadOnly) = Len(sel)
      writePermissions == SelectSeq(sel, IsWriteBearing)
      isCritical(p) == p.riskLevel = "Critical"
      isElevated(p) == p.riskLevel = "Elevated"
      criticalCount == CountSeq(writePermissions, isCritical)
      elevatedCount == CountSeq(writePermissions, isElevated)
      pii(p) == p.hasPII
      fin(p) == p.hasFinancialData
      cred(p) == p.hasPaymentCredentials
      piiCount == CountSeq(sel, pii)
      financialCount == CountSeq(sel, fin)
      credentialsCount == CountSeq(sel, cred)
      \* sensitivityMultiplier = isReadOnlyRole ? 0.2 : 1, as a fraction of 10
      multiplier == IF isReadOnlyRole THEN 2 ELSE 10
  IN  criticalCount * 25 + elevatedCount * 15
      + MathRound(credentialsCount * 20 * multiplier, 10)
      + MathRound(financialCount * 10 * multiplier, 10)
      + MathRound(piiCount * 8 * multiplier, 10)

\* Variant of section 3 that applies the read-only reduction after the
\* factor is pushed but keeps half of the score.
ScoreAfterOperationType_Half(sel) ==
  LET isReadOnly(p) == p.operationType = "Read-only"
      isReadOnlyRole == CountSeq(sel, isReadOnly) = Len(sel)
      writeCount == CountSeq(sel, IsWriteBearing)
      total == AccumulatedScore(sel)
  IN  IF isReadOnlyRole THEN MathRound(total * 5, 10)
      ELSE IF 10 * writeCount > 7 * Len(sel) THEN total + 10
      ELSE total

\* totalScore after the operation type analysis (section 3).
ScoreAfterOperationType(sel) ==
  LET isReadOnly(p) == p.operationType = "Read-only"
      isReadOnlyRole == CountSeq(sel, isReadOnly) = Len(sel)
      writeCount == CountSeq(sel, IsWriteBearing)
      total == AccumulatedScore(sel)
  IN  IF isReadOnlyRole THEN MathRound(total * 3, 10)
      ELSE IF 10 * writeCount > 7 * Len(sel) THEN total + 10
      ELSE total

\* new Set(selectedPermissions.map(p => p.productCategory))
ProductCategoriesOf(sel) == {sel[i].productCategory : i \in 1..Len(sel)}

\* totalScore after the breadth check (section 5).
TotalScore(sel) ==
  IF Cardinality(ProductCategoriesOf(sel)) > 8
  THEN ScoreAfterOperationType(sel) + 10
  ELSE ScoreAfterOperationType(sel)

\* Variant of the classification in which the second branch differs from
\* the first.
OverallRisk_SplitHigh(cappedScore) ==
  IF cappedScore >= 70 THEN "High"
  ELSE IF cappedScore >= 45 THEN "Medium"
  ELSE IF cappedScore >= 20 THEN "Medium"
  ELSE "Low"

\* The overall risk level for a capped score.
OverallRisk(cappedScore) ==
  IF cappedScore >= 70 THEN "High"
  ELSE IF cappedScore >= 45 THEN "High"
  ELSE IF cappedScore >= 20 THEN "Medium"
  ELSE "Low"

\* Variant of the result for the empty set that recommends nothing.
EmptyAssessment_NoRecommendation ==
  [overallRisk |-> "Low", score |-> 0, factors |-> <<>>, warnings |-> <<>>,
   recommendations |-> <<>>]

\* The result returned early for selectedPermissions.length === 0.
EmptyAssessment ==
  [overallRisk |-> "Low", score |-> 0, factors |-> <<>>, warnings |-> <<>>,
   recommendations |-> <<"Add permissions to define role capabilities">>]

\* generateRiskAssessment(selectedPermissions)
generateRiskAssessment(sel) ==
  IF Len(sel) = 0
  THEN EmptyAssessment
  ELSE
  LET isReadOnly(p) == p.operationType = "Read-only"
      writeCount == CountSeq(sel, IsWriteBearing)
      readOnlyCount == CountSeq(sel, isReadOnly)
      isReadOnlyRole == readOnlyCount = Len(sel)
      writeHeavy == 10 * writeCount > 7 * Len(sel)   \* writeRatio > 0.7
      writePermissions == SelectSeq(sel, IsWriteBearing)
      isCritical(p) == p.riskLevel = "Critical"
      isElevated(p) == p.riskLevel = "Elevated"
      isStandard(p) == p.riskLevel = "Standard"
      criticalCount == CountSeq(writePermissions, isCritical)
      elevatedCount == CountSeq(writePermissions, isElevated)
      standardCount == CountSeq(sel, isStandard)
      pii(p) == p.hasPII
      fin(p) == p.hasFinancialData
      cred(p) == p.hasPaymentCredentials
      piiCount == CountSeq(sel, pii)
      financialCount == CountSeq(sel, fin)
      credentialsCount == CountSeq(sel, cred)
      has(apiName) == \E i \in 1..Len(sel) : sel[i].apiName = apiName
      categories == Cardinality(ProductCategoriesOf(sel))
      factors ==
        PushIf(criticalCount > 0,
               [name |-> "Critical Operations", level |-> "High", count |-> criticalCount])
        \o PushIf(elevatedCount > 0,
               [name |-> "Administrative Access", level |-> "High", count |-> elevatedCount])
        \o PushIf(credentialsCount > 0,
               [name |-> "Payment Credentials",
                level |-> IF isReadOnlyRole THEN "Medium" ELSE "High",
                count |-> credentialsCount])
        \o PushIf(financialCount > 0,
               [name |-> "Financial Data",
                level |-> IF isReadOnlyRole THEN "Low" ELSE "High",
                count |-> financialCount])
        \o PushIf(piiCount > 0,
               [name |-> "Personal Information",
                level |-> IF isReadOnlyRole THEN "Low" ELSE "Medium",
                count |-> piiCount])
        \o PushIf(isReadOnlyRole,
               [name |-> "Read-Only Access", level |-> "Low", count |-> readOnlyCount])
        \o PushIf(~isReadOnlyRole /\ writeHeavy,
               [name |-> "Write-Heavy Access", level |-> "Medium", count |-> writeCount])
        \o PushIf(standardCount > 0 /\ criticalCount = 0 /\ elevatedCount = 0 /\ ~isReadOnlyRole,
               [name |-> "Standard Operations", level |-> "Low", count |-> standardCount])
        \o PushIf(categories > 8,
               [name |-> "Broad Access", level |-> "Medium", count |-> categories])
      highRisk(entry) == has(entry.apiName)
      warningOf(entry) == entry.warning
      warnings ==
        PushIf(credentialsCount > 0 /\ ~isReadOnlyRole,
               "Role has access to payment credentials - ensure proper security training")
        \o PushIf(piiCount > 3 /\ ~isReadOnlyRole,
               "Broad PII access - ensure GDPR/privacy compliance")
        \o MapSeq(SelectSeq(HIGH_RISK_PERMISSIONS, highRisk), warningOf)
      recommendations ==
        PushIf(categories > 8, "Consider splitting into more focused roles")
        \o PushIf(criticalCount > 0 /\ ~has("team_management"),
               "Critical operations without team management - ensure proper oversight")
        \o PushIf(Len(sel) > 30, "Large permission set - review if all are necessary")
        \o PushIf(writeCount > 0 /\ readOnlyCount = 0,
               "No read-only permissions - consider adding for audit visibility")
      cappedScore == Min(100, TotalScore(sel))
  IN  [overallRisk |-> OverallRisk(cappedScore),
       score |-> cappedScore,
       factors |-> SortFactors(factors),
       warnings |-> Slice(warnings, 5),
       recommendations |-> Slice(recommendations, 3)]

(***************************************************************************)
(* Inputs of the risk assessment: permission sets drawn from the catalog,  *)
(* each member either as the catalog record or as the read-only view that  *)
(* getPermissionsForRole returns for a role granted "read".                *)
(***************************************************************************)

\* Number of catalog permissions the assessed sets are drawn from.
RiskPoolSize == 10

\* The catalog permissions the assessed sets are drawn from, most
\* distinctive first: ten product categories, both Critical permissions,
\* Elevated ones, every sensitivity flag, and, among the first ten, four
\* PII-bearing permissions and four entries of the high-risk table.
RiskPoolNames ==
  <<"account_admin_management_operations", "balance_transfer_operations",
    "settings_security", "sensitive_resources", "customer_operations",
    "tax_filing_operations", "billing_settings_operations",
    "identity_verification_operations", "terminal_infrastructure",
    "data_export_operations", "payment_processing", "issuing_card_operations",
    "team_management", "dashboard_baseline">>

\* The catalog record with the given apiName.
CatalogPermission(apiName) ==
  LET i == CHOOSE j \in 1..Len(PermissionCatalog) : PermissionCatalog[j].apiName = apiName
  IN  PermissionCatalog[i]

\* The view of p under a "read" grant.
ReadOnlyView(p) == [p EXCEPT !.operationType = "Read-only", !.actions = "read"]

\* How a pool member enters an assessed set.
Inclusion == {"absent", "catalog", "read"}

RECURSIVE PermissionSetFor(_, _)
\* The permission list chosen by choice, a function from 1..n to Inclusion.
PermissionSetFor(choice, n) ==
  IF n = 0 THEN <<>>
  ELSE LET p == CatalogPermission(RiskPoolNames[n])
           rest == PermissionSetFor(choice, n - 1)
       IN  IF choice[n] = "absent" THEN rest
           ELSE IF choice[n] = "catalog" THEN Append(rest, p)
           ELSE Append(rest, ReadOnlyView(p))

\* Value of assessment before the first call.
NotAssessed == [overallRisk |-> "none", score |-> -1, factors |-> <<>>,
                warnings |-> <<>>, recommendations |-> <<>>]

(***************************************************************************)
(* Grouping Engine                                                         *)
(***************************************************************************)

\* Variant of getSensitivityGroups that stops at the first flag set.
getSensitivityGroups_FirstOnly(p) ==
  IF p.hasPII THEN <<"PII">>
  ELSE IF p.hasFinancialData THEN <<"Financial Data">>
  ELSE IF p.hasPaymentCredentials THEN <<"Payment Credentials">>
  ELSE <<"Non-sensitive">>

\* getSensitivityGroups(p)
getSensitivityGroups(p) ==
  LET groups == PushIf(p.hasPII, "PII")
                \o PushIf(p.hasFinancialData, "Financial Data")
                \o PushIf(p.hasPaymentCredentials, "Payment Credentials")
  IN  IF Len(groups) = 0 THEN <<"Non-sensitive">> ELSE groups

\* The properties of Permission that hold a string.
StringProperties == {"apiName", "productCategory", "actions", "operationType", "riskLevel"}

\* p[groupBy] as the key of a bucket: the value of a string property, and
\* "undefined" for a name that is no property of p.
PropertyKey(p, groupBy) ==
  IF groupBy \in StringProperties THEN p[groupBy] ELSE "undefined"

\* The keys of the buckets p is pushed to, in order: the branches of the
\* loop body of groupPermissions and of groupPerms.
GroupKeys(p, groupBy) ==
  IF groupBy = "taskCategory" THEN p.taskCategories
  ELSE IF groupBy = "sensitivity" THEN getSensitivityGroups(p)
  ELSE IF groupBy = "operationType" THEN <<p.operationType>>
  ELSE IF groupBy = "riskLevel" THEN <<p.riskLevel>>
  ELSE <<PropertyKey(p, groupBy)>>

\* groupPermissions(perms, groupBy): one bucket per key met, each holding,
\* in input order, the permissions pushed to it (no permission of the
\* catalog names a task category twice).
groupPermissions(perms, groupBy) ==
  LET keys == UNION {Range(GroupKeys(perms[i], groupBy)) : i \in 1..Len(perms)}
  IN  [k \in keys |->
         LET pushed(p) == k \in Range(GroupKeys(p, groupBy))
         IN  SelectSeq(perms, pushed)]

\* The apiNames of the catalog in the order of localeCompare.
ApiNamesInOrder ==
  <<"account_admin_management_operations", "account_operations",
    "accounts_kyc_basic", "application_fee_operations", "balance_operations",
    "balance_transfer_operations", "billing_operations",
    "billing_settings_operations", "capital_operations", "charge",
    "charge_operations", "checkout_operations", "climate_operations",
    "connect_settings", "connected_account_operations",
    "credit_note_operations", "crypto_operations", "customer_operations",
    "customer_portal_operations", "dashboard_baseline",
    "data_export_operations", "dev_integration", "dispute_operations",
    "embeddable_key_admin", "identity_verification_operations",
    "invoice_operations", "issuing_card_operations", "order_operations",
    "order_refund_operations", "payment_intent", "payment_intent_operations",
    "payment_processing", "payout_operations", "product_operations",
    "promotion_operations", "radar_operations", "reporting_operations",
    "review_operations", "sandbox_creation", "sensitive_resources",
    "settings_security", "stripe_apps_development",
    "subscription_operations", "tax_automation_operations",
    "tax_filing_operations", "team_management", "terminal_infrastructure",
    "terminal_operations", "transfer_operations", "treasury_operations">>

\* [...perms].sort((a, b) => a.apiName.localeCompare(b.apiName)); the sort is
\* stable.
SortByApiName(perms) ==
  LET rank(i) == CHOOSE r \in 1..Len(ApiNamesInOrder) : ApiNamesInOrder[r] = perms[i].apiName
      before(i) == {j \in 1..Len(perms) :
                      rank(j) < rank(i) \/ (rank(j) = rank(i) /\ j < i)}
  IN  [n \in 1..Len(perms) |->
         perms[CHOOSE i \in 1..Len(perms) : Cardinality(before(i)) = n - 1]]

\* groupPerms(perms) of CustomizeRoleModal and of CreateRoleModal, for the
\* groupBy of the modal.
groupPerms(perms, groupBy) ==
  IF groupBy = "alphabetical"
  THEN [k \in {""} |-> SortByApiName(perms)]
  ELSE groupPermissions(perms, groupBy)

\* Number of catalog permissions the grouped lists are drawn from.
GroupPoolSize == 5

\* The catalog permissions the grouped lists are drawn from: two flags set,
\* no flag set, payment credentials only, PII only, and further ones.
GroupPoolNames ==
  <<"tax_filing_operations", "terminal_infrastructure", "sensitive_resources",
    "customer_operations", "balance_transfer_operations", "data_export_operations",
    "settings_security", "dashboard_baseline">>

RECURSIVE PermissionListFor(_, _)
\* The permission list chosen by choice, a function from 1..n to BOOLEAN.
PermissionListFor(choice, n) ==
  IF n = 0 THEN <<>>
  ELSE IF choice[n]
       THEN Append(PermissionListFor(choice, n - 1), CatalogPermission(GroupPoolNames[n]))
       ELSE PermissionListFor(choice, n - 1)

\* The groupBy values passed: the options of the dropdowns, a property that
\* is no option, and a name that is no property.
GroupByInputs ==
  {"alphabetical", "productCategory", "taskCategory", "operationType", "riskLevel",
   "sensitivity", "apiName", "color"}

\* Value of grouping before the first call.
NotGrouped == [function |-> "none", groupBy |-> "none", outcome |-> "none",
               groups |-> [k \in {} |-> <<>>]]

(***************************************************************************)
(* Arguments the resolver functions are called with                        *)
(***************************************************************************)

\* The role ids passed to getPermissionsForRole: every built-in id, ids no
\* role has, the empty string, and names every object inherits.
RoleIdInputs ==
  BuiltinRoleIds \cup {"unknown_role", "custom_1", "", "constructor", "toString", "__proto__"}

\* Number of names the apiName lists are drawn from.
ResolvePoolSize == 5

\* The names the apiName lists are drawn from: catalog permissions and names
\* the catalog does not hold.
ResolvePoolNames ==
  <<"tax_filing_operations", "retired_permission", "dashboard_baseline", "constructor",
    "balance_transfer_operations", "settings_security", "">>

RECURSIVE ApiNameListFor(_, _)
\* The apiName list chosen by choice, a function from 1..n to BOOLEAN.
ApiNameListFor(choice, n) ==
  IF n = 0 THEN <<>>
  ELSE IF choice[n]
       THEN Append(ApiNameListFor(choice, n - 1), ResolvePoolNames[n])
       ELSE ApiNameListFor(choice, n - 1)

\* A stored custom role that names the given apiNames, in the shape
\* CreateRoleModal.handleSave writes ("both"), CustomizeRoleModal.handleSave
\* writes ("permissionAccess"), or with the name list only.
StoredCustomRole(apiNames, shape) ==
  [id |-> "custom_1",
   name |-> "Stored role",
   category |-> "Custom",
   details |-> <<>>,
   userCount |-> 0,
   permissionApiNames |-> IF shape = "permissionAccess" THEN UndefinedArray ELSE apiNames,
   permissionAccess |-> IF shape = "permissionApiNames" THEN UndefinedObject
                        ELSE [k \in Range(apiNames) |-> "read"],
   customDescription |-> Undefined]

\* The shapes of stored custom roles.
RoleShapes == {"both", "permissionAccess", "permissionApiNames"}

\* Value of resolution before the first call; roleId and apiNames hold the
\* arguments drawn.
NotResolved(roleId, apiNames) ==
  [function |-> "none", roleId |-> roleId, apiNames |-> apiNames, role |-> NullObject,
   outcome |-> "none", result |-> <<>>]

(***************************************************************************)
(* Role summary generators                                                 *)
(***************************************************************************)

\* notablePermissions of generateCannotDo, in key order.
notablePermissions ==
  <<[apiName |-> "team_management",
     description |-> "Invite, remove, or manage team member roles"],
    [apiName |-> "sensitive_resources",
     description |-> "View or manage API keys and secrets"],
    [apiName |-> "balance_transfer_operations",
     description |-> "Transfer funds between accounts"],
    [apiName |-> "payout_operations",
     description |-> "Create or manage payouts"],
    [apiName |-> "settings_security",
     description |-> "Change security settings or 2FA"],
    [apiName |-> "dispute_operations",
     description |-> "Accept, challenge, or manage disputes"],
    [apiName |-> "order_refund_operations",
     description |-> "Issue refunds"],
    [apiName |-> "charge_operations",
     description |-> "Create new charges or payments"],
    [apiName |-> "customer_pii_operations",
     description |-> "View or edit customer personal information"],
    [apiName |-> "account_admin_management_operations",
     description |-> "Perform administrative account changes"]>>

\* The apiNames of a permission list.
ApiNamesOf(sel) == {sel[i].apiName : i \in 1..Len(sel)}

\* actions.includes("write"), also after toLowerCase, for the three values
\* actions takes.
IncludesWrite(actions) == actions \in {"write", "read, write"}

\* The distinct elements of s, in order of first occurrence (the iteration
\* order of new Set(s)).
DistinctInOrder(s) ==
  LET firsts == {i \in 1..Len(s) : \A j \in 1..(i - 1) : s[j] # s[i]}
      nth(k) == CHOOSE i \in firsts : Cardinality({j \in firsts : j < i}) = k - 1
  IN  [k \in 1..Cardinality(firsts) |-> s[nth(k)]]

\* generateCannotDo(selectedPermissions)
generateCannotDo(sel) ==
  LET allPerms == getAllPermissions
      selectedApiNames == ApiNamesOf(sel)
      missing(n) == n.apiName \notin selectedApiNames
      descriptionOf(n) == n.description
      \* each push is guarded by cannotList.length < 5
      notable == Slice(MapSeq(SelectSeq(notablePermissions, missing), descriptionOf), 5)
      hasAnyWrite == \E i \in 1..Len(sel) : IncludesWrite(sel[i].actions)
      withWrite ==
        IF Len(notable) < 5
        THEN notable \o PushIf(~hasAnyWrite, "Make any changes (read-only access)")
        ELSE notable
      selectedCategories == ProductCategoriesOf(sel)
      categoryOf(p) == p.productCategory
      allCategories == DistinctInOrder(MapSeq(allPerms, categoryOf))
      notSelected(cat) == cat \notin selectedCategories
      feature(cat) == "Access " \o cat \o " features"
      withCategories ==
        IF Len(withWrite) < 5
        THEN Slice(withWrite \o MapSeq(SelectSeq(allCategories, notSelected), feature), 5)
        ELSE withWrite
  IN  Slice(withCategories, 5)

\* p.description || p.apiName.replace(/_/g, " "). The catalog's descriptions
\* are non-empty and pairwise different, also when case is ignored; each is
\* represented by a text that names its permission.
DescriptionOf(p) == "description of " \o p.apiName

RECURSIVE FlatTaskCategories(_, _)
\* selectedPermissions.flatMap(p => p.taskCategories) over the first n.
FlatTaskCategories(sel, n) ==
  IF n = 0 THEN <<>>
  ELSE FlatTaskCategories(sel, n - 1) \o sel[n].taskCategories

\* The keys of taskGroups, in insertion order.
TaskGroupKeys(sel) ==
  LET flat == FlatTaskCategories(sel, Len(sel))
  IN  DistinctInOrder(flat)

\* Array.from(taskGroups[task])
TaskGroup(sel, task) ==
  LET inTask(p) == task \in Range(p.taskCategories)
      descs == MapSeq(SelectSeq(sel, inTask), DescriptionOf)
  IN  DistinctInOrder(descs)

\* priorityTasks of generateCanDo.
priorityTasks ==
  <<"Process transactions", "Handle customer issues", "Manage billing",
    "Monitor financials", "Export & analyze data", "Configure settings",
    "Develop & integrate", "Manage team access", "Transfer funds">>

RECURSIVE PriorityItems(_, _)
\* The items the loop over the first n priority tasks pushes.
PriorityItems(sel, n) ==
  IF n = 0 THEN <<>>
  ELSE LET task == priorityTasks[n]
           descriptions == TaskGroup(sel, task)
           pushed ==
             IF descriptions = <<>> THEN <<>>
             ELSE IF Len(descriptions) > 2
             THEN <<task \o " (" \o ToString(Len(descriptions)) \o " capabilities)">>
             ELSE Slice(descriptions, 2)
       IN  PriorityItems(sel, n - 1) \o pushed

\* The items the loop over the remaining task categories pushes.
RemainingItems(sel) ==
  LET notPriority(task) == task \notin Range(priorityTasks)
      first(task) == TaskGroup(sel, task)[1]
  IN  MapSeq(SelectSeq(TaskGroupKeys(sel), notPriority), first)

\* Variant of generateCanDo without the early return.
generateCanDo_NoPlaceholder(sel) ==
  LET canDoList == PriorityItems(sel, Len(priorityTasks)) \o RemainingItems(sel)
  IN  Slice(DistinctInOrder(canDoList), 6)

\* generateCanDo(selectedPermissions). The items are deduplicated ignoring
\* case; no two different items of the model are equal ignoring case.
generateCanDo(sel) ==
  IF Len(sel) = 0 THEN <<"Access basic Dashboard features">>
  ELSE LET canDoList == PriorityItems(sel, Len(priorityTasks)) \o RemainingItems(sel)
       IN  Slice(DistinctInOrder(canDoList), 6)

RECURSIVE Join(_, _, _)
\* s.slice(0, n).join(sep)
Join(s, n, sep) ==
  IF n = 0 THEN ""
  ELSE IF n = 1 THEN s[1]
  ELSE Join(s, n - 1, sep) \o sep \o s[n]

\* sortedCategories[0]?.[0] || "": the category with the largest count, the
\* first inserted among equals (the sort is stable).
PrimaryCategory(sel) ==
  LET categoryOf(p) == p.productCategory
      all == MapSeq(sel, categoryOf)
      categories == DistinctInOrder(all)
      count(cat) == Cardinality({i \in 1..Len(sel) : sel[i].productCategory = cat})
      first == CHOOSE i \in 1..Len(categories) :
                 /\ \A j \in 1..Len(categories) : count(categories[j]) <= count(categories[i])
                 /\ \A j \in 1..(i - 1) : count(categories[j]) < count(categories[i])
  IN  IF categories = <<>> THEN "" ELSE categories[first]

\* audience of generateRoleDescription.
Audience(sel) ==
  LET primaryCategory == PrimaryCategory(sel)
      hasWrite == \E i \in 1..Len(sel) : IncludesWrite(sel[i].actions)
      taskCategories == Range(FlatTaskCategories(sel, Len(sel)))
  IN  IF "Manage team access" \in taskCategories THEN "security and IT teams"
      ELSE IF primaryCategory = "Developer tools" THEN "engineering teams"
      ELSE IF primaryCategory = "Payments"
      THEN (IF hasWrite THEN "payment operations teams" ELSE "finance teams")
      ELSE IF primaryCategory = "Connect" THEN "platform operations teams"
      ELSE IF primaryCategory = "Billing" THEN "billing and subscription teams"
      ELSE IF primaryCategory = "Identity" THEN "compliance teams"
      ELSE IF primaryCategory = "Tax" THEN "tax and accounting teams"
      ELSE IF primaryCategory = "Issuing" THEN "card issuing teams"
      ELSE IF "Handle customer issues" \in taskCategories THEN "customer support teams"
      ELSE IF ~hasWrite THEN "teams needing read-only visibility"
      ELSE "team members"

\* The description generateRoleDescription returns for the empty list.
PlaceholderDescription ==
  "A custom role with minimal permissions. Add permissions to define what this role can access."

\* generateRoleDescription(selectedPermissions)
generateRoleDescription(sel) ==
  IF Len(sel) = 0 THEN PlaceholderDescription
  ELSE LET hasWrite == \E i \in 1..Len(sel) : IncludesWrite(sel[i].actions)
           accessType == IF hasWrite THEN "read and write" ELSE "read-only"
           categoryOf(p) == p.productCategory
           all == MapSeq(sel, categoryOf)
           categories == DistinctInOrder(all)
           categoryStr ==
             IF Len(categories) > 3
             THEN Join(categories, 2, ", ") \o ", and " \o ToString(Len(categories) - 2)
                    \o " more areas"
             ELSE Join(categories, Len(categories), ", ")
           sensitiveTypes ==
             PushIf(\E i \in 1..Len(sel) : sel[i].hasPII, "PII")
               \o PushIf(\E i \in 1..Len(sel) : sel[i].hasFinancialData, "financial data")
               \o PushIf(\E i \in 1..Len(sel) : sel[i].hasPaymentCredentials,
                         "payment credentials")
           sensitivityNote ==
             IF Len(sensitiveTypes) > 0
             THEN " Includes access to " \o Join(sensitiveTypes, Len(sensitiveTypes), " and ")
                    \o "."
             ELSE ""
       IN  "For " \o Audience(sel) \o ". Custom role with " \o accessType \o " access to "
             \o categoryStr \o "." \o sensitivityNote

\* generateRoleDetails(selectedPermissions)
generateRoleDetails(sel) ==
  [description |-> generateRoleDescription(sel),
   canDo |-> generateCanDo(sel),
   cannotDo |-> generateCannotDo(sel)]

\* Number of permissions the summarised lists are drawn from.
DetailsPoolSize == 6

\* The catalog permissions a summarised list holds or leaves out: entries of
\* notablePermissions, write-only, read-only and team-access permissions.
DetailsPoolNames ==
  <<"account_admin_management_operations", "team_management", "dashboard_baseline",
    "charge_operations", "tax_filing_operations", "customer_operations",
    "sensitive_resources", "payout_operations">>

\* The list that holds the chosen pool permissions (base "none") or the whole
\* catalog without them (base "all"), in catalog order.
DetailsInput(base, choice) ==
  LET chosen == {DetailsPoolNames[i] : i \in {j \in 1..DetailsPoolSize : choice[j]}}
      kept(p) == IF base = "all" THEN p.apiName \notin chosen ELSE p.apiName \in chosen
  IN  SelectSeq(PermissionCatalog, kept)

\* Value of roleDetails before the call.
NotGenerated == [description |-> "<none>", canDo |-> <<>>, cannotDo |-> <<>>]

(***************************************************************************)
(* Bounds of the page model                                                *)
(***************************************************************************)

\* Number of built-in roles offered in the role list and the base-role menu.
NumBuiltinRoles == 2

\* Number of catalog permissions the user clicks on in the builder modals.
NumTogglePerms == 2

\* Largest number of custom roles created.
MaxCustomRoles == 2

\* Largest value of the millisecond clock.
MaxClock == 1

\* Largest number of setTimeout callbacks pending at once.
MaxTimers == 2

\* Largest number of user gestures (clicks, key presses, reloads) in a run.
MaxGestures == 5

\* Built-in roles offered, in the order the bound admits them.
ModelledRoleIds ==
  <<"super_admin", "sandbox_admin", "developer", "view_only", "analyst", "iam_admin",
    "admin", "support", "support_associate", "dispute_analyst", "refund_analyst",
    "issuing_support_agent", "tax_analyst", "identity_analyst">>

\* Permissions clicked on, in the order the bound admits them.
ModelledPermissionNames ==
  <<"team_management", "dashboard_baseline", "balance_transfer_operations",
    "customer_operations", "sensitive_resources">>

ClickableBuiltinRoles ==
  {BuiltinRole(ModelledRoleIds[i]) : i \in 1..Min(NumBuiltinRoles, Len(ModelledRoleIds))}

ClickablePermissionNames ==
  {ModelledPermissionNames[i] : i \in 1..Min(NumTogglePerms, Len(ModelledPermissionNames))}

\* Text typed into the role-name field.
RoleNameInputs == {" ", "Ops"}

\* Text typed into the description field.
DescriptionInputs == {"", "Notes "}

(***************************************************************************)
(* Helpers of the page                                                     *)
(***************************************************************************)

\* String.prototype.trim on the strings of the model.
Trim(s) ==
  IF s = " " THEN ""
  ELSE IF s = "Notes " THEN "Notes"
  ELSE s

\* x || undefined for a string x.
OrUndefined(s) == IF Truthy(s) THEN s ELSE Undefined

\* `custom_${Date.now()}`
CustomId(t) == "custom_" \o ToString(t)

\* The property names of Role.
RoleFields ==
  {"id", "name", "category", "details", "userCount", "permissionApiNames",
   "permissionAccess", "customDescription"}

\* Whether property f of role r holds undefined.
IsUndefinedProperty(r, f) ==
  CASE f = "customDescription" -> r[f] = Undefined
    [] f = "permissionAccess" -> r[f] = UndefinedObject
    [] f = "details" -> r[f] = UndefinedObject
    [] f = "permissionApiNames" -> r[f] = UndefinedArray
    [] OTHER -> FALSE

\* undefined of the type of property f.
UndefinedProperty(f) ==
  CASE f = "permissionAccess" -> UndefinedObject
    [] f = "details" -> UndefinedObject
    [] f = "permissionApiNames" -> UndefinedArray
    [] OTHER -> Undefined

\* Variant of the serialisation that loses the permissionAccess object.
JSONstringifyRole_NoAccess(r) ==
  [k \in {f \in RoleFields \ {"permissionAccess"} : ~IsUndefinedProperty(r, f)} |-> r[k]]

\* JSON.stringify of one role: properties whose value is undefined are omitted.
JSONstringifyRole(r) == [k \in {f \in RoleFields : ~IsUndefinedProperty(r, f)} |-> r[k]]

\* JSON.parse of one role: a property the text omits reads as undefined.
JSONparseRole(o) ==
  [k \in RoleFields |-> IF k \in DOMAIN o THEN o[k] ELSE UndefinedProperty(k)]

\* Variant of the serialisation that leaves the first role of the list out.
JSONstringify_WithoutFirst(roles) ==
  [json |-> MapSeq(IF roles = <<>> THEN roles ELSE Tail(roles), JSONstringifyRole)]

\* JSON.stringify(customRoles)
JSONstringify(roles) == [json |-> MapSeq(roles, JSONstringifyRole)]

\* JSON.parse(saved)
JSONparse(saved) == MapSeq(saved.json, JSONparseRole)

\* Texts found in the store that no JSON.stringify(customRoles) wrote: the
\* empty text, text that is not JSON, and JSON that is not a list.
StoredTexts == {"", "{not json", "null", "{}"}

\* The values the store may hold under the key when the page is first
\* loaded: none, or one of the texts.
StoredPayloads == {NullObject} \cup {[text |-> t] : t \in StoredTexts}

\* if (saved): a stored value other than null and the empty text.
SavedTruthy(saved) ==
  /\ saved # NullObject
  /\ "text" \in DOMAIN saved => saved.text # ""

\* What JSON.parse(saved) yields: an array, null, an object, or a thrown
\* SyntaxError.
JSONparseOutcome(saved) ==
  IF "json" \in DOMAIN saved THEN "array"
  ELSE IF saved.text = "null" THEN "null"
  ELSE IF saved.text = "{}" THEN "object"
  ELSE "SyntaxError"

\* The render of RolesPermissionsPage throws a TypeError for a customRoles
\* value of this kind: customRoles.length on null, ...customRoles on a value
\* that is not iterable.
RenderThrows(kind) == kind = "null" \/ kind \notin {"array"}

\* generateRoleDetails(selectedPermissions): generated text, represented by
\* a marker; only its description is read by the page logic.
GeneratedDetails == [description |-> "<generated description>"]

\* allPermissions.find(p => p.apiName === apiName), or undefined.
FindPermission(apiName) ==
  IF \E i \in 1..Len(permissions) : permissions[i].apiName = apiName
  THEN permissions[CHOOSE i \in 1..Len(permissions) : permissions[i].apiName = apiName]
  ELSE UndefinedObject

\* perm?.actions
ActionsOf(apiName) ==
  IF FindPermission(apiName) = UndefinedObject THEN Undefined
  ELSE FindPermission(apiName).actions

\* supportsMultipleAccess of PermissionCard and CustomizeBundleCard.
SupportsMultipleAccess(p) == p.actions = "read, write"

\* accessOptions of AccessSelector.
accessOptions == {"read", "write", "read, write"}

\* rolePermissions of RolesPermissionsPage for a given selected role.
RolePermissionsOf(role) ==
  IF role.permissionAccess # UndefinedObject
  THEN LET inAccess(p) == HasKey(role.permissionAccess, p.apiName)
       IN  SelectSeq(getAllPermissions, inAccess)
  ELSE IF role.permissionApiNames # UndefinedArray
  THEN LET included(p) == p.apiName \in Range(role.permissionApiNames)
       IN  SelectSeq(getAllPermissions, included)
  ELSE getPermissionsForRole(role.id)

\* rolePermissions as rendered.
rolePermissions == RolePermissionsOf(selectedRole)

\* riskAssessment as rendered.
riskAssessment == generateRiskAssessment(rolePermissions)

\* combinedAllRoles
combinedAllRoles == allRoles \o customRoles

\* Variant of the resolution that assigns the adjusted view to the catalog
\* record instead of returning a copy.
CatalogAfterResolve_InPlace(roleId) ==
  LET adjust(p) == AdjustForRole(p, roleId)
  IN  MapSeq(permissions, adjust)

\* The catalog array after a call of getPermissionsForRole(roleId): the map
\* callback returns a fresh object for an adjusted record and never assigns
\* to an element of the array.
CatalogAfterResolve(roleId) == permissions

\* The access map the builder modals derive from a base role (before the
\* required permission is ensured).
AccessMapFromRole(role) ==
  IF role.permissionAccess # UndefinedObject
  THEN role.permissionAccess
  ELSE IF role.permissionApiNames # UndefinedArray
  THEN [apiName \in Range(role.permissionApiNames) |-> OrElse(ActionsOf(apiName), "read")]
  ELSE LET basePermissions == getPermissionsForRole(role.id)
           names == {basePermissions[i].apiName : i \in 1..Len(basePermissions)}
           viewOf(n) == basePermissions[CHOOSE i \in 1..Len(basePermissions) :
                                          basePermissions[i].apiName = n]
       IN  [n \in names |-> OrElse(Lookup(viewOf(n).roleAccess, role.id), viewOf(n).actions)]

\* if (!accessMap[REQUIRED_PERMISSION]) accessMap[REQUIRED_PERMISSION] = "read"
EnsureRequired(accessMap) ==
  IF ~Truthy(Lookup(accessMap, REQUIRED_PERMISSION))
  THEN WithKey(accessMap, REQUIRED_PERMISSION, "read")
  ELSE accessMap

(***************************************************************************)
(* Builder modal state                                                     *)
(***************************************************************************)

\* State of a modal component while SandboxView replaces the page (the
\* modal components are not rendered then; their state is discarded).
Unmounted == [k \in {"<unmounted>"} |-> "<unmounted>"]

\* useState initial values of CustomizeRoleModal.
CustomizeMountState(baseRole, mode) ==
  [roleName |-> IF mode = "edit" THEN baseRole.name ELSE baseRole.name \o " (copy)",
   customDescription |-> "",
   permissionAccess |-> EmptyObject,
   pendingAccess |-> EmptyObject]

\* The init effect of CustomizeRoleModal, run with isOpen true.
CustomizeInit(baseRole, mode, initialState) ==
  IF initialState # UndefinedObject
  THEN [roleName |-> initialState.roleName,
        customDescription |-> initialState.customDescription,
        permissionAccess |-> initialState.permissionAccess,
        pendingAccess |-> EmptyObject]
  ELSE [roleName |-> IF mode = "edit" THEN baseRole.name ELSE baseRole.name \o " (copy)",
        customDescription |-> OrElse(baseRole.customDescription, ""),
        permissionAccess |->
          IF FindPermission(REQUIRED_PERMISSION) # UndefinedObject
          THEN EnsureRequired(AccessMapFromRole(baseRole))
          ELSE AccessMapFromRole(baseRole),
        pendingAccess |-> EmptyObject]

\* useState initial values of CreateRoleModal.
CreateMountState ==
  [selectedBaseRole |-> NullObject, roleName |-> "", customDescription |-> "",
   permissionAccess |-> EmptyObject, pendingAccess |-> EmptyObject,
   exitingApiName |-> Null]

\* The init effect of CreateRoleModal, run with isOpen true; exitingApiName
\* is not among the values it sets.
CreateInit(initialState, exiting) ==
  IF initialState # UndefinedObject
  THEN [selectedBaseRole |-> initialState.selectedBaseRole,
        roleName |-> initialState.roleName,
        customDescription |-> initialState.customDescription,
        permissionAccess |-> initialState.permissionAccess,
        pendingAccess |-> EmptyObject,
        exitingApiName |-> exiting]
  ELSE [selectedBaseRole |-> NullObject, roleName |-> "", customDescription |-> "",
        permissionAccess |-> WithKey(EmptyObject, REQUIRED_PERMISSION, "read"),
        pendingAccess |-> EmptyObject,
        exitingApiName |-> exiting]

\* initialState prop of CustomizeRoleModal.
CustomizeInitialState(sandbox) ==
  IF sandbox.sourceModal = "customize" THEN sandbox.modalState ELSE UndefinedObject

\* initialState prop of CreateRoleModal.
CreateInitialState(sandbox) ==
  IF sandbox.sourceModal = "create" THEN sandbox.modalState ELSE UndefinedObject

\* setSandboxMode(prev => ({ ...prev, sourceModal: undefined, modalState: undefined }))
ClearSandboxModal(sandbox) ==
  [sandbox EXCEPT !.sourceModal = Undefined, !.modalState = UndefinedObject]

\* The catalog array after a render that resolves the permissions of role.
CatalogAfterRender(role) ==
  IF role.permissionAccess = UndefinedObject /\ role.permissionApiNames = UndefinedArray
  THEN CatalogAfterResolve(role.id)
  ELSE permissions

(***************************************************************************)
(* RolesPermissionsPage: gestures on the main view                         *)
(***************************************************************************)

\* React has flushed every effect and queued state update, and the page is
\* rendered.
Idle == pendingEffects = <<>> /\ ~pendingState.queued /\ ~renderError

\* One more user gesture is made; startup is over by then.
Gesture(kind, entry) ==
  /\ gestures < MaxGestures
  /\ gestures' = gestures + 1
  /\ loaded' = NullObject
  /\ lastGesture' = [kind |-> kind, entry |-> entry]

\* A gesture outside the sandbox other than Reset.
UserGesture == Gesture("other", NoEntry)

\* The main view is shown and no modal covers it.
MainView ==
  /\ Idle
  /\ ~sandboxMode.active
  /\ ~isCustomizeModalOpen
  /\ ~isCreateModalOpen

\* Variant of the role menu that offers Edit and Delete for every role.
IsCustomRole_Any(role) == TRUE

\* Whether the role menu offers Edit and Delete (isCustomRole, onEdit).
IsCustomRole(role) == role.category = "Custom"

\* Click on a role of the role list.
SelectRole(role) ==
  /\ MainView
  /\ UserGesture
  /\ role \in ClickableBuiltinRoles \cup Range(customRoles)
  /\ selectedRole' = role
  /\ permissions' = CatalogAfterRender(role)
  /\ UNCHANGED <<riskVars, addedInSession, renderError, localStorage, expandedCategory, customRoles,
                 isCustomizeModalOpen, isCreateModalOpen, modalMode, sandboxMode,
                 customizeModal, createModal, timers, now, pendingEffects,
                 pendingState, lastSave>>

\* "Add role": opens CreateRoleModal, whose init effect runs.
OpenCreateModal ==
  /\ MainView
  /\ UserGesture
  /\ isCreateModalOpen' = TRUE
  /\ createModal' = CreateInit(CreateInitialState(sandboxMode), createModal.exitingApiName)
  /\ addedInSession' = 0
  /\ UNCHANGED <<permissions, riskVars, renderError, localStorage, selectedRole, expandedCategory,
                 customRoles, isCustomizeModalOpen, modalMode, sandboxMode,
                 customizeModal, timers, now, pendingEffects, pendingState, lastSave>>

\* Role menu "Duplicate" / "Duplicate and customize".
Duplicate ==
  /\ MainView
  /\ UserGesture
  /\ modalMode' = "create"
  /\ isCustomizeModalOpen' = TRUE
  /\ customizeModal' = CustomizeInit(selectedRole, "create", CustomizeInitialState(sandboxMode))
  /\ permissions' = CatalogAfterRender(selectedRole)
  /\ addedInSession' = 0
  /\ UNCHANGED <<riskVars, renderError, localStorage, selectedRole, expandedCategory, customRoles,
                 isCreateModalOpen, sandboxMode, createModal, timers, now,
                 pendingEffects, pendingState, lastSave>>

\* Role menu "Edit", offered for custom roles only.
Edit ==
  /\ MainView
  /\ UserGesture
  /\ IsCustomRole(selectedRole)
  /\ modalMode' = "edit"
  /\ isCustomizeModalOpen' = TRUE
  /\ customizeModal' = CustomizeInit(selectedRole, "edit", CustomizeInitialState(sandboxMode))
  /\ permissions' = CatalogAfterRender(selectedRole)
  /\ addedInSession' = 0
  /\ UNCHANGED <<riskVars, renderError, localStorage, selectedRole, expandedCategory, customRoles,
                 isCreateModalOpen, sandboxMode, createModal, timers, now,
                 pendingEffects, pendingState, lastSave>>

\* array.filter(r => r.id !== id)
WithoutId(roles, id) ==
  LET keep(r) == r.id # id
  IN  SelectSeq(roles, keep)

\* Role menu "Delete": handleDeleteCustomRole.
handleDeleteCustomRole ==
  /\ MainView
  /\ UserGesture
  /\ IsCustomRole(selectedRole)
  /\ customRoles' = WithoutId(customRoles, selectedRole.id)
  /\ selectedRole' = roleCategories[1].roles[1]
  /\ expandedCategory' = roleCategories[1].name
  /\ permissions' = CatalogAfterRender(roleCategories[1].roles[1])
  /\ pendingEffects' = <<"save">>
  /\ lastSave' = [NoSave EXCEPT !.phase = "deleted"]
  /\ UNCHANGED <<riskVars, addedInSession, renderError, localStorage, isCustomizeModalOpen, isCreateModalOpen,
                 modalMode, sandboxMode, customizeModal, createModal, timers, now,
                 pendingState>>

(***************************************************************************)
(* CustomizeRoleModal                                                      *)
(***************************************************************************)

\* Number of bundle cards the user clicks on.
NumBundles == 1

\* Product categories whose bundle card is clicked, in the order the bound
\* admits them.
ModelledBundleCategories ==
  <<"Support & Operations", "Account & Connect", "Financial Operations", "Customers", "Admin">>

\* The bundles clicked on: groups of groupPerms(allPermissions) under the
\* default grouping by product category.
ClickableBundles ==
  {LET inCategory(p) == p.productCategory = ModelledBundleCategories[i]
   IN  SelectSeq(permissions, inCategory) :
     i \in 1..Min(NumBundles, Len(ModelledBundleCategories))}

\* The modal is rendered and receives input (also while its close animation
\* runs).
CustomizeShown == Idle /\ ~sandboxMode.active /\ isCustomizeModalOpen

\* Appending a setTimeout callback.
SetTimeout(callback) == Append(timers, callback)

\* Delay of a pending callback in milliseconds.
Delay(callback) == IF callback.kind = "close" THEN 150 ELSE 200

\* setTimeout callback of handleClose.
CloseCallback(modal) == [kind |-> "close", modal |-> modal]

\* Variant of the card that shows the AccessSelector for every selected
\* permission, whatever its actions.
ShowsAccessSelector_AnyPermission(p, access) ==
  HasKey(access, p.apiName) /\ Truthy(Lookup(access, p.apiName))

\* Whether a card shows the AccessSelector for a selected permission.
ShowsAccessSelector(p, access) ==
  /\ HasKey(access, p.apiName)
  /\ SupportsMultipleAccess(p)
  /\ Truthy(Lookup(access, p.apiName))

\* Whether a card shows the placeholder AccessSelector of an available
\* permission (needsAccessSelection).
NeedsAccessSelection(p, access) ==
  ~HasKey(access, p.apiName) /\ SupportsMultipleAccess(p)

\* The updater of togglePermission applied to prev, with the pending access
\* of the caller's closure.
ToggledAccess(prev, apiName, pending) ==
  IF HasKey(prev, apiName)
  THEN WithoutKey(prev, apiName)
  ELSE WithKey(prev, apiName,
               OrElse(Lookup(pending, apiName), OrElse(ActionsOf(apiName), "read")))

\* The pending map after the updater of togglePermission ran on prev.
ToggledPending(prev, apiName, pending) ==
  IF HasKey(prev, apiName) THEN pending ELSE WithoutKey(pending, apiName)

\* CustomizeRoleModal.togglePermission
CustomizeTogglePermission(apiName) ==
  /\ CustomizeShown
  /\ UserGesture
  /\ apiName \in ClickablePermissionNames
  /\ customizeModal' =
       IF apiName = REQUIRED_PERMISSION THEN customizeModal
       ELSE [customizeModal EXCEPT
               !.permissionAccess =
                  ToggledAccess(customizeModal.permissionAccess, apiName,
                                customizeModal.pendingAccess),
               !.pendingAccess =
                  ToggledPending(customizeModal.permissionAccess, apiName,
                                 customizeModal.pendingAccess)]
  /\ UNCHANGED <<permissions, riskVars, addedInSession, renderError, localStorage, selectedRole, expandedCategory,
                 customRoles, isCustomizeModalOpen, isCreateModalOpen, modalMode,
                 sandboxMode, createModal, timers, now, pendingEffects, pendingState,
                 lastSave>>

\* CustomizeRoleModal.updatePermissionAccess, reached from the AccessSelector
\* of a selected permission.
CustomizeUpdatePermissionAccess(apiName, access) ==
  /\ CustomizeShown
  /\ UserGesture
  /\ apiName \in ClickablePermissionNames
  /\ access \in accessOptions
  /\ ShowsAccessSelector(FindPermission(apiName), customizeModal.permissionAccess)
  /\ customizeModal' =
       [customizeModal EXCEPT
          !.permissionAccess = WithKey(customizeModal.permissionAccess, apiName, access)]
  /\ UNCHANGED <<permissions, riskVars, addedInSession, renderError, localStorage, selectedRole, expandedCategory,
                 customRoles, isCustomizeModalOpen, isCreateModalOpen, modalMode,
                 sandboxMode, createModal, timers, now, pendingEffects, pendingState,
                 lastSave>>

\* CustomizeRoleModal.updatePendingAccess, reached from the placeholder
\* AccessSelector of an available permission.
CustomizeUpdatePendingAccess(apiName, access) ==
  /\ CustomizeShown
  /\ UserGesture
  /\ apiName \in ClickablePermissionNames
  /\ access \in accessOptions
  /\ NeedsAccessSelection(FindPermission(apiName), customizeModal.permissionAccess)
  /\ customizeModal' =
       [customizeModal EXCEPT
          !.pendingAccess = WithKey(customizeModal.pendingAccess, apiName, access)]
  /\ UNCHANGED <<permissions, riskVars, addedInSession, renderError, localStorage, selectedRole, expandedCategory,
                 customRoles, isCustomizeModalOpen, isCreateModalOpen, modalMode,
                 sandboxMode, createModal, timers, now, pendingEffects, pendingState,
                 lastSave>>

\* getBundleCheckState(perms)
getBundleCheckState(perms, access) ==
  LET checked(p) == HasKey(access, p.apiName)
      checkedCount == CountSeq(perms, checked)
  IN  IF checkedCount = 0 THEN "none"
      ELSE IF checkedCount = Len(perms) THEN "all"
      ELSE "some"

\* Variant of the updater that unchecks every permission of the bundle, the
\* required one included.
BundleToggledAccess_Every(prev, perms, state) ==
  LET names == {perms[i].apiName : i \in 1..Len(perms)}
      actionsOf(n) == perms[CHOOSE i \in 1..Len(perms) : perms[i].apiName = n].actions
  IN  IF state = "all"
      THEN [k \in DOMAIN prev \ names |-> prev[k]]
      ELSE [k \in DOMAIN prev \cup names |->
              IF HasKey(prev, k) THEN prev[k] ELSE actionsOf(k)]

\* The updater of toggleBundle applied to prev.
BundleToggledAccess(prev, perms, state) ==
  LET names == {perms[i].apiName : i \in 1..Len(perms)}
      actionsOf(n) == perms[CHOOSE i \in 1..Len(perms) : perms[i].apiName = n].actions
  IN  IF state = "all"
      THEN [k \in DOMAIN prev \ (names \ {REQUIRED_PERMISSION}) |-> prev[k]]
      ELSE [k \in DOMAIN prev \cup names |->
              IF HasKey(prev, k) THEN prev[k] ELSE actionsOf(k)]

\* CustomizeRoleModal.toggleBundle
toggleBundle(perms) ==
  /\ CustomizeShown
  /\ UserGesture
  /\ perms \in ClickableBundles
  /\ customizeModal' =
       [customizeModal EXCEPT
          !.permissionAccess =
             BundleToggledAccess(customizeModal.permissionAccess, perms,
                                 getBundleCheckState(perms, customizeModal.permissionAccess))]
  /\ UNCHANGED <<permissions, riskVars, addedInSession, renderError, localStorage, selectedRole, expandedCategory,
                 customRoles, isCustomizeModalOpen, isCreateModalOpen, modalMode,
                 sandboxMode, createModal, timers, now, pendingEffects, pendingState,
                 lastSave>>

\* CustomizeRoleModal.handleRevert
handleRevert ==
  /\ CustomizeShown
  /\ UserGesture
  /\ customizeModal' =
       [roleName |-> IF modalMode = "edit" THEN selectedRole.name
                     ELSE selectedRole.name \o " (copy)",
        customDescription |-> OrElse(selectedRole.customDescription, ""),
        permissionAccess |-> EnsureRequired(AccessMapFromRole(selectedRole)),
        pendingAccess |-> EmptyObject]
  /\ permissions' = CatalogAfterRender(selectedRole)
  /\ UNCHANGED <<riskVars, addedInSession, renderError, localStorage, selectedRole, expandedCategory, customRoles,
                 isCustomizeModalOpen, isCreateModalOpen, modalMode, sandboxMode,
                 createModal, timers, now, pendingEffects, pendingState, lastSave>>

\* Typing into the role-name field of CustomizeRoleModal.
CustomizeSetRoleName(name) ==
  /\ CustomizeShown
  /\ UserGesture
  /\ name \in RoleNameInputs
  /\ customizeModal' = [customizeModal EXCEPT !.roleName = name]
  /\ UNCHANGED <<permissions, riskVars, addedInSession, renderError, localStorage, selectedRole, expandedCategory,
                 customRoles, isCustomizeModalOpen, isCreateModalOpen, modalMode,
                 sandboxMode, createModal, timers, now, pendingEffects, pendingState,
                 lastSave>>

\* Typing into (or clearing) the description field of CustomizeRoleModal.
CustomizeSetDescription(text) ==
  /\ CustomizeShown
  /\ UserGesture
  /\ text \in DescriptionInputs
  /\ customizeModal' = [customizeModal EXCEPT !.customDescription = text]
  /\ UNCHANGED <<permissions, riskVars, addedInSession, renderError, localStorage, selectedRole, expandedCategory,
                 customRoles, isCustomizeModalOpen, isCreateModalOpen, modalMode,
                 sandboxMode, createModal, timers, now, pendingEffects, pendingState,
                 lastSave>>

\* handleSaveCustomRole(newRole)
handleSaveCustomRole(newRole) ==
  /\ customRoles' = Append(customRoles, newRole)
  /\ selectedRole' = newRole
  /\ expandedCategory' = "Custom"

\* prev.map(r => r.id === updatedRole.id ? updatedRole : r)
ReplaceById(roles, updatedRole) ==
  LET replace(r) == IF r.id = updatedRole.id THEN updatedRole ELSE r
  IN  MapSeq(roles, replace)

\* handleUpdateCustomRole(updatedRole)
handleUpdateCustomRole(updatedRole) ==
  /\ customRoles' = ReplaceById(customRoles, updatedRole)
  /\ selectedRole' = updatedRole

\* details of a saved role: the generated details with the trimmed custom
\* description, when there is one, as description.
FinalDetails(customDescription) ==
  [description |-> OrElse(Trim(customDescription), GeneratedDetails.description)]

\* The permission apiNames the main page resolves for a role that stores
\* permissionAccess, each with the access level the role holds on it.
ResolvedAccess(role) ==
  LET resolved == RolePermissionsOf(role)
  IN  {<<resolved[i].apiName, Lookup(role.permissionAccess, resolved[i].apiName)>> :
         i \in 1..Len(resolved)}

\* The role CustomizeRoleModal.handleSave creates in create mode.
CustomizeNewRole ==
  [id |-> CustomId(now),
   name |-> customizeModal.roleName,
   category |-> "Custom",
   details |-> FinalDetails(customizeModal.customDescription),
   userCount |-> 0,
   permissionApiNames |-> UndefinedArray,
   permissionAccess |-> customizeModal.permissionAccess,
   customDescription |-> OrUndefined(Trim(customizeModal.customDescription))]

\* The role CustomizeRoleModal.handleSave passes to onUpdate in edit mode.
CustomizeUpdatedRole ==
  [selectedRole EXCEPT
     !.name = customizeModal.roleName,
     !.details = FinalDetails(customizeModal.customDescription),
     !.permissionAccess = customizeModal.permissionAccess,
     !.customDescription = OrUndefined(Trim(customizeModal.customDescription))]

\* CustomizeRoleModal.handleSave (Save button, or Ctrl/Cmd+Enter, whose
\* handler builds the same role), with the onSave / onUpdate wiring of the
\* page and the render that follows: the saved role becomes baseRole, so the
\* init effect of the still open modal runs again.
CustomizeSave ==
  /\ CustomizeShown
  /\ UserGesture
  /\ Len(timers) < MaxTimers
  /\ IF modalMode = "edit"
     THEN /\ handleUpdateCustomRole(CustomizeUpdatedRole)
          /\ UNCHANGED <<expandedCategory, addedInSession>>
          /\ lastSave' = [NoSave EXCEPT !.phase = "updated"]
     ELSE /\ Len(customRoles) < MaxCustomRoles
          /\ handleSaveCustomRole(CustomizeNewRole)
          /\ addedInSession' = addedInSession + 1
          /\ lastSave' = [phase |-> "saved", index |-> Len(customRoles) + 1,
                          resolved |-> ResolvedAccess(CustomizeNewRole)]
  /\ sandboxMode' = ClearSandboxModal(sandboxMode)
  /\ timers' = SetTimeout(CloseCallback("customize"))
  /\ customizeModal' = CustomizeInit(selectedRole', modalMode, UndefinedObject)
  /\ pendingEffects' = <<"save">>
  /\ UNCHANGED <<permissions, riskVars, renderError, localStorage, isCustomizeModalOpen,
                 isCreateModalOpen, modalMode, createModal, now, pendingState>>

\* CustomizeRoleModal.handleClose (close button, backdrop or Escape).
CustomizeClose ==
  /\ CustomizeShown
  /\ UserGesture
  /\ Len(timers) < MaxTimers
  /\ timers' = SetTimeout(CloseCallback("customize"))
  /\ UNCHANGED <<permissions, riskVars, addedInSession, renderError, localStorage, selectedRole, expandedCategory,
                 customRoles, isCustomizeModalOpen, isCreateModalOpen, modalMode,
                 sandboxMode, customizeModal, createModal, now, pendingEffects,
                 pendingState, lastSave>>

\* Callbacks that survive the unmount of the modal components: those of
\* handleClose call the page's onClose; the state setters of an unmounted
\* component do nothing.
SurvivingTimers(ts) ==
  LET isClose(cb) == cb.kind = "close"
  IN  SelectSeq(ts, isClose)

\* "Test in sandbox" of CustomizeRoleModal with the onTestInSandbox wiring.
CustomizeTestInSandbox ==
  /\ CustomizeShown
  /\ Gesture("enter", [source |-> "customize",
                       roleName |-> customizeModal.roleName,
                       customDescription |-> customizeModal.customDescription,
                       permissionAccess |-> customizeModal.permissionAccess])
  /\ LET previewRole ==
           [id |-> IF modalMode = "edit" THEN selectedRole.id ELSE CustomId(now),
            name |-> customizeModal.roleName,
            category |-> "Custom",
            details |-> UndefinedObject,
            userCount |-> 0,
            permissionApiNames |-> UndefinedArray,
            permissionAccess |-> customizeModal.permissionAccess,
            customDescription |-> OrUndefined(customizeModal.customDescription)]
         modalState ==
           [roleName |-> customizeModal.roleName,
            customDescription |-> customizeModal.customDescription,
            permissionAccess |-> customizeModal.permissionAccess,
            selectedBaseRole |-> NullObject]
     IN  sandboxMode' = [active |-> TRUE, role |-> previewRole, unsavedRole |-> previewRole,
                         sourceModal |-> "customize", modalState |-> modalState]
  /\ isCustomizeModalOpen' = FALSE
  /\ customizeModal' = Unmounted
  /\ createModal' = Unmounted
  /\ timers' = SurvivingTimers(timers)
  /\ UNCHANGED <<permissions, riskVars, addedInSession, renderError, localStorage, selectedRole, expandedCategory,
                 customRoles, isCreateModalOpen, modalMode, now, pendingEffects,
                 pendingState, lastSave>>

(***************************************************************************)
(* Sandbox                                                                 *)
(***************************************************************************)

\* Role menu "Test in sandbox".
MenuTestInSandbox ==
  /\ MainView
  /\ Gesture("enter", NoEntry)
  /\ sandboxMode' = [active |-> TRUE, role |-> selectedRole, unsavedRole |-> NullObject,
                     sourceModal |-> "menu", modalState |-> UndefinedObject]
  /\ customizeModal' = Unmounted
  /\ createModal' = Unmounted
  /\ timers' = SurvivingTimers(timers)
  /\ UNCHANGED <<permissions, riskVars, addedInSession, renderError, localStorage, selectedRole, expandedCategory,
                 customRoles, isCustomizeModalOpen, isCreateModalOpen, modalMode, now,
                 pendingEffects, pendingState, lastSave>>

\* SandboxView is rendered.
SandboxShown == Idle /\ sandboxMode.active /\ sandboxMode.role # NullObject

\* Variant of SandboxRoleChange that also selects the role on the main page.
SandboxRoleChange_Selecting(role) ==
  /\ SandboxShown
  /\ Gesture("switch", lastGesture.entry)
  /\ \/ role \in ClickableBuiltinRoles \cup Range(customRoles)
     \/ sandboxMode.unsavedRole # NullObject /\ role = sandboxMode.unsavedRole
  /\ sandboxMode' = [sandboxMode EXCEPT !.role = role]
  /\ selectedRole' = role
  /\ UNCHANGED <<permissions, riskVars, addedInSession, renderError, localStorage, expandedCategory,
                 customRoles, isCustomizeModalOpen, isCreateModalOpen, modalMode,
                 customizeModal, createModal, timers, now, pendingEffects,
                 pendingState, lastSave>>

\* SandboxView onRoleChange: pick another role in the role selector.
SandboxRoleChange(role) ==
  /\ SandboxShown
  /\ Gesture("switch", lastGesture.entry)
  /\ \/ role \in ClickableBuiltinRoles \cup Range(customRoles)
     \/ sandboxMode.unsavedRole # NullObject /\ role = sandboxMode.unsavedRole
  /\ sandboxMode' = [sandboxMode EXCEPT !.role = role]
  /\ UNCHANGED <<permissions, riskVars, addedInSession, renderError, localStorage, selectedRole, expandedCategory,
                 customRoles, isCustomizeModalOpen, isCreateModalOpen, modalMode,
                 customizeModal, createModal, timers, now, pendingEffects,
                 pendingState, lastSave>>

\* SandboxView onExit ("Return to live account"): the page renders again,
\* its modal components mount anew, and the modal the sandbox was entered
\* from opens and runs its init effect.
SandboxExit ==
  /\ SandboxShown
  /\ Gesture("exit", lastGesture.entry)
  /\ sandboxMode' = [active |-> FALSE, role |-> NullObject, unsavedRole |-> NullObject,
                     sourceModal |-> sandboxMode.sourceModal,
                     modalState |-> sandboxMode.modalState]
  /\ isCustomizeModalOpen' = (isCustomizeModalOpen \/ sandboxMode.sourceModal = "customize")
  /\ isCreateModalOpen' = (isCreateModalOpen \/ sandboxMode.sourceModal = "create")
  /\ customizeModal' =
       IF isCustomizeModalOpen'
       THEN CustomizeInit(selectedRole, modalMode, CustomizeInitialState(sandboxMode'))
       ELSE CustomizeMountState(selectedRole, modalMode)
  /\ createModal' =
       IF isCreateModalOpen'
       THEN CreateInit(CreateInitialState(sandboxMode'), Null)
       ELSE CreateMountState
  /\ permissions' = CatalogAfterRender(selectedRole)
  /\ UNCHANGED <<riskVars, addedInSession, renderError, localStorage, selectedRole, expandedCategory, customRoles,
                 modalMode, timers, now, pendingEffects, pendingState, lastSave>>

(***************************************************************************)
(* CreateRoleModal                                                         *)
(***************************************************************************)

\* The modal is rendered and receives input.
CreateShown == Idle /\ ~sandboxMode.active /\ isCreateModalOpen

\* CreateRoleModal.handleBaseRoleSelect; the dropdown lists the built-in
\* roles.
handleBaseRoleSelect(role) ==
  /\ CreateShown
  /\ UserGesture
  /\ role \in ClickableBuiltinRoles
  /\ createModal' =
       [createModal EXCEPT
          !.selectedBaseRole = role,
          !.permissionAccess = EnsureRequired(AccessMapFromRole(role)),
          !.pendingAccess = EmptyObject,
          !.customDescription =
             IF role.details # UndefinedObject /\ Truthy(role.details.description)
             THEN role.details.description
             ELSE createModal.customDescription]
  /\ permissions' = CatalogAfterRender(role)
  /\ UNCHANGED <<riskVars, addedInSession, renderError, localStorage, selectedRole, expandedCategory, customRoles,
                 isCustomizeModalOpen, isCreateModalOpen, modalMode, sandboxMode,
                 customizeModal, timers, now, pendingEffects, pendingState, lastSave>>

\* CreateRoleModal.handleReset
handleReset ==
  /\ CreateShown
  /\ Gesture("reset", NoEntry)
  /\ createModal' =
       [createModal EXCEPT
          !.selectedBaseRole = NullObject,
          !.roleName = "",
          !.customDescription = "",
          !.permissionAccess = WithKey(EmptyObject, REQUIRED_PERMISSION, "read"),
          !.pendingAccess = EmptyObject]
  /\ UNCHANGED <<permissions, riskVars, addedInSession, renderError, localStorage, selectedRole, expandedCategory,
                 customRoles, isCustomizeModalOpen, isCreateModalOpen, modalMode,
                 sandboxMode, customizeModal, timers, now, pendingEffects, pendingState,
                 lastSave>>

\* checkboxDisabled of the PermissionCard of apiName in CreateRoleModal.
CheckboxDisabled(apiName) ==
  IF HasKey(createModal.permissionAccess, apiName)
  THEN apiName = REQUIRED_PERMISSION
  ELSE /\ SupportsMultipleAccess(FindPermission(apiName))
       /\ ~Truthy(Lookup(createModal.pendingAccess, apiName))

\* setTimeout callback of CreateRoleModal.togglePermission; pendingAccess is
\* the value the handler's closure captured.
ToggleCallback(apiName, pendingAccess) ==
  [kind |-> "toggle", apiName |-> apiName, pendingAccess |-> pendingAccess]

\* Click on a permission card of CreateRoleModal: onToggle and
\* CreateRoleModal.togglePermission.
CreateTogglePermission(apiName) ==
  /\ CreateShown
  /\ UserGesture
  /\ apiName \in ClickablePermissionNames
  /\ ~CheckboxDisabled(apiName)
  /\ ~Truthy(createModal.exitingApiName)
  /\ IF apiName = REQUIRED_PERMISSION
     THEN UNCHANGED <<createModal, timers>>
     ELSE /\ Len(timers) < MaxTimers
          /\ createModal' = [createModal EXCEPT !.exitingApiName = apiName]
          /\ timers' = SetTimeout(ToggleCallback(apiName, createModal.pendingAccess))
  /\ UNCHANGED <<permissions, riskVars, addedInSession, renderError, localStorage, selectedRole, expandedCategory,
                 customRoles, isCustomizeModalOpen, isCreateModalOpen, modalMode,
                 sandboxMode, customizeModal, now, pendingEffects, pendingState,
                 lastSave>>

\* CreateRoleModal.updatePermissionAccess, reached from the AccessSelector of
\* a selected permission.
CreateUpdatePermissionAccess(apiName, access) ==
  /\ CreateShown
  /\ UserGesture
  /\ apiName \in ClickablePermissionNames
  /\ access \in accessOptions
  /\ ShowsAccessSelector(FindPermission(apiName), createModal.permissionAccess)
  /\ createModal' =
       [createModal EXCEPT
          !.permissionAccess = WithKey(createModal.permissionAccess, apiName, access)]
  /\ UNCHANGED <<permissions, riskVars, addedInSession, renderError, localStorage, selectedRole, expandedCategory,
                 customRoles, isCustomizeModalOpen, isCreateModalOpen, modalMode,
                 sandboxMode, customizeModal, timers, now, pendingEffects, pendingState,
                 lastSave>>

\* CreateRoleModal.updatePendingAccess, reached from the placeholder
\* AccessSelector of an available permission.
CreateUpdatePendingAccess(apiName, access) ==
  /\ CreateShown
  /\ UserGesture
  /\ apiName \in ClickablePermissionNames
  /\ access \in accessOptions
  /\ NeedsAccessSelection(FindPermission(apiName), createModal.permissionAccess)
  /\ createModal' =
       [createModal EXCEPT
          !.pendingAccess = WithKey(createModal.pendingAccess, apiName, access)]
  /\ UNCHANGED <<permissions, riskVars, addedInSession, renderError, localStorage, selectedRole, expandedCategory,
                 customRoles, isCustomizeModalOpen, isCreateModalOpen, modalMode,
                 sandboxMode, customizeModal, timers, now, pendingEffects, pendingState,
                 lastSave>>

\* Typing into the role-name field of CreateRoleModal.
CreateSetRoleName(name) ==
  /\ CreateShown
  /\ UserGesture
  /\ name \in RoleNameInputs
  /\ createModal' = [createModal EXCEPT !.roleName = name]
  /\ UNCHANGED <<permissions, riskVars, addedInSession, renderError, localStorage, selectedRole, expandedCategory,
                 customRoles, isCustomizeModalOpen, isCreateModalOpen, modalMode,
                 sandboxMode, customizeModal, timers, now, pendingEffects, pendingState,
                 lastSave>>

\* Typing into the description field of CreateRoleModal.
CreateSetDescription(text) ==
  /\ CreateShown
  /\ UserGesture
  /\ text \in DescriptionInputs
  /\ createModal' = [createModal EXCEPT !.customDescription = text]
  /\ UNCHANGED <<permissions, riskVars, addedInSession, renderError, localStorage, selectedRole, expandedCategory,
                 customRoles, isCustomizeModalOpen, isCreateModalOpen, modalMode,
                 sandboxMode, customizeModal, timers, now, pendingEffects, pendingState,
                 lastSave>>

\* selectedApiNames: the keys of permissionAccess, here in catalog order.
SelectedApiNames(access) ==
  LET selected(p) == p.apiName \in DOMAIN access
      apiNameOf(p) == p.apiName
  IN  MapSeq(SelectSeq(permissions, selected), apiNameOf)

\* The role CreateRoleModal.handleSave creates.
CreateNewRole ==
  [id |-> CustomId(now),
   name |-> Trim(createModal.roleName),
   category |-> "Custom",
   details |-> FinalDetails(createModal.customDescription),
   userCount |-> 0,
   permissionApiNames |-> SelectedApiNames(createModal.permissionAccess),
   permissionAccess |-> createModal.permissionAccess,
   customDescription |-> OrUndefined(Trim(createModal.customDescription))]

\* CreateRoleModal.handleSave with the onSave wiring of the page and the
\* render that follows: when the modal was restored from the sandbox its
\* initialState prop becomes undefined and its init effect runs again.
CreateSave ==
  /\ CreateShown
  /\ UserGesture
  /\ IF ~Truthy(Trim(createModal.roleName))
     THEN UNCHANGED <<customRoles, selectedRole, expandedCategory, sandboxMode, timers,
                      createModal, pendingEffects, lastSave, addedInSession>>
     ELSE /\ Len(timers) < MaxTimers
          /\ Len(customRoles) < MaxCustomRoles
          /\ handleSaveCustomRole(CreateNewRole)
          /\ addedInSession' = addedInSession + 1
          /\ lastSave' = [phase |-> "saved", index |-> Len(customRoles) + 1,
                          resolved |-> ResolvedAccess(CreateNewRole)]
          /\ sandboxMode' = ClearSandboxModal(sandboxMode)
          /\ timers' = SetTimeout(CloseCallback("create"))
          /\ createModal' =
               IF CreateInitialState(sandboxMode) # UndefinedObject
               THEN CreateInit(UndefinedObject, createModal.exitingApiName)
               ELSE createModal
          /\ pendingEffects' = <<"save">>
  /\ UNCHANGED <<permissions, riskVars, renderError, localStorage, isCustomizeModalOpen,
                 isCreateModalOpen, modalMode, customizeModal, now, pendingState>>

\* CreateRoleModal.handleClose (close button, backdrop or Escape).
CreateClose ==
  /\ CreateShown
  /\ UserGesture
  /\ Len(timers) < MaxTimers
  /\ timers' = SetTimeout(CloseCallback("create"))
  /\ UNCHANGED <<permissions, riskVars, addedInSession, renderError, localStorage, selectedRole, expandedCategory,
                 customRoles, isCustomizeModalOpen, isCreateModalOpen, modalMode,
                 sandboxMode, customizeModal, createModal, now, pendingEffects,
                 pendingState, lastSave>>

\* "Test in sandbox" of CreateRoleModal with the onTestInSandbox wiring.
CreateTestInSandbox ==
  /\ CreateShown
  /\ Gesture("enter", [source |-> "create",
                       roleName |-> createModal.roleName,
                       customDescription |-> createModal.customDescription,
                       permissionAccess |-> createModal.permissionAccess])
  /\ LET previewRole ==
           [id |-> CustomId(now),
            name |-> OrElse(createModal.roleName, "New Role"),
            category |-> "Custom",
            details |-> UndefinedObject,
            userCount |-> 0,
            permissionApiNames |-> UndefinedArray,
            permissionAccess |-> createModal.permissionAccess,
            customDescription |-> OrUndefined(createModal.customDescription)]
         modalState ==
           [roleName |-> createModal.roleName,
            customDescription |-> createModal.customDescription,
            permissionAccess |-> createModal.permissionAccess,
            selectedBaseRole |-> createModal.selectedBaseRole]
     IN  sandboxMode' = [active |-> TRUE, role |-> previewRole, unsavedRole |-> previewRole,
                         sourceModal |-> "create", modalState |-> modalState]
  /\ isCreateModalOpen' = FALSE
  /\ customizeModal' = Unmounted
  /\ createModal' = Unmounted
  /\ timers' = SurvivingTimers(timers)
  /\ UNCHANGED <<permissions, riskVars, addedInSession, renderError, localStorage, selectedRole, expandedCategory,
                 customRoles, isCustomizeModalOpen, modalMode, now, pendingEffects,
                 pendingState, lastSave>>

(***************************************************************************)
(* Timers, effects, reload                                                 *)
(***************************************************************************)

\* timers without its i-th callback.
RemoveAt(ts, i) == [j \in 1..(Len(ts) - 1) |-> IF j < i THEN ts[j] ELSE ts[j + 1]]

\* A callback can run before every callback set earlier only if those have
\* a longer delay.
CanFire(i) == \A j \in 1..(i - 1) : Delay(timers[j]) > Delay(timers[i])

\* The setTimeout callback of handleClose runs: onClose of the page. A modal
\* that stays open and loses its initialState prop runs its init effect.
FireClose(i) ==
  /\ Idle
  /\ i \in DOMAIN timers
  /\ CanFire(i)
  /\ timers[i].kind = "close"
  /\ timers' = RemoveAt(timers, i)
  /\ sandboxMode' = ClearSandboxModal(sandboxMode)
  /\ IF timers[i].modal = "customize"
     THEN /\ isCustomizeModalOpen' = FALSE
          /\ UNCHANGED <<isCreateModalOpen, customizeModal>>
          /\ createModal' =
               IF /\ ~sandboxMode.active
                  /\ isCreateModalOpen
                  /\ CreateInitialState(sandboxMode) # UndefinedObject
               THEN CreateInit(UndefinedObject, createModal.exitingApiName)
               ELSE createModal
     ELSE /\ isCreateModalOpen' = FALSE
          /\ UNCHANGED <<isCustomizeModalOpen, createModal>>
          /\ customizeModal' =
               IF /\ ~sandboxMode.active
                  /\ isCustomizeModalOpen
                  /\ CustomizeInitialState(sandboxMode) # UndefinedObject
               THEN CustomizeInit(selectedRole, modalMode, UndefinedObject)
               ELSE customizeModal
  /\ addedInSession' = 0
  /\ UNCHANGED <<permissions, riskVars, startVars, localStorage, selectedRole, expandedCategory,
                 customRoles, modalMode, now, pendingEffects, pendingState, lastSave,
                 lastGesture, gestures>>

\* The setTimeout callback of CreateRoleModal.togglePermission runs.
FireToggle(i) ==
  /\ Idle
  /\ i \in DOMAIN timers
  /\ CanFire(i)
  /\ timers[i].kind = "toggle"
  /\ timers' = RemoveAt(timers, i)
  /\ createModal' =
       [createModal EXCEPT
          !.permissionAccess =
             ToggledAccess(createModal.permissionAccess, timers[i].apiName,
                           timers[i].pendingAccess),
          !.pendingAccess =
             ToggledPending(createModal.permissionAccess, timers[i].apiName,
                            createModal.pendingAccess),
          !.exitingApiName = Null]
  /\ UNCHANGED <<permissions, riskVars, addedInSession, startVars, localStorage, selectedRole, expandedCategory,
                 customRoles, isCustomizeModalOpen, isCreateModalOpen, modalMode,
                 sandboxMode, customizeModal, now, pendingEffects, pendingState,
                 lastSave, lastGesture, gestures>>

\* Time passes: Date.now() grows.
Tick ==
  /\ now < MaxClock
  /\ now' = now + 1
  /\ UNCHANGED <<permissions, riskVars, addedInSession, startVars, localStorage, selectedRole, expandedCategory,
                 customRoles, isCustomizeModalOpen, isCreateModalOpen, modalMode,
                 sandboxMode, customizeModal, createModal, timers, pendingEffects,
                 pendingState, lastSave, lastGesture, gestures>>

\* The load effect of RolesPermissionsPage (runs once, on mount).
LoadEffect ==
  /\ pendingEffects # <<>>
  /\ Head(pendingEffects) = "load"
  /\ pendingEffects' = Tail(pendingEffects)
  /\ loaded' = localStorage
  /\ pendingState' =
       IF SavedTruthy(localStorage) /\ JSONparseOutcome(localStorage) # "SyntaxError"
       THEN [queued |-> TRUE,
             kind |-> JSONparseOutcome(localStorage),
             value |-> IF JSONparseOutcome(localStorage) = "array"
                       THEN JSONparse(localStorage)
                       ELSE <<>>]
       ELSE pendingState
  /\ UNCHANGED <<permissions, riskVars, addedInSession, renderError, localStorage, selectedRole, expandedCategory,
                 customRoles, isCustomizeModalOpen, isCreateModalOpen, modalMode,
                 sandboxMode, customizeModal, createModal, timers, now, lastSave, lastGesture, gestures>>

\* The save effect of RolesPermissionsPage (runs on mount and whenever
\* customRoles changed).
SaveEffect ==
  /\ pendingEffects # <<>>
  /\ Head(pendingEffects) = "save"
  /\ pendingEffects' = Tail(pendingEffects)
  /\ localStorage' = JSONstringify(customRoles)
  /\ lastSave' = IF lastSave.phase = "saved"
                 THEN [lastSave EXCEPT !.phase = "persisted"]
                 ELSE lastSave
  /\ UNCHANGED <<permissions, riskVars, addedInSession, startVars, selectedRole, expandedCategory, customRoles,
                 isCustomizeModalOpen, isCreateModalOpen, modalMode, sandboxMode,
                 customizeModal, createModal, timers, now, pendingState, lastGesture, gestures>>

\* The render that applies the setCustomRoles call of the load effect; the
\* new array makes the save effect run again. When the render throws, it is
\* not committed: the page has no error boundary and nothing is shown.
Rerender ==
  /\ pendingEffects = <<>>
  /\ pendingState.queued
  /\ ~renderError
  /\ IF RenderThrows(pendingState.kind)
     THEN /\ renderError' = TRUE
          /\ UNCHANGED <<customRoles, pendingEffects>>
     ELSE /\ renderError' = FALSE
          /\ customRoles' = pendingState.value
          /\ pendingEffects' = <<"save">>
  /\ pendingState' = NothingQueued
  /\ UNCHANGED <<permissions, riskVars, addedInSession, loaded, localStorage, selectedRole, expandedCategory,
                 isCustomizeModalOpen, isCreateModalOpen, modalMode, sandboxMode,
                 customizeModal, createModal, timers, now, lastSave, lastGesture, gestures>>

\* The page as constructed: the first render is done, the mount effects are
\* still to run.
Mounted ==
  /\ permissions = PermissionCatalog
  /\ selectedRole = allRoles[1]
  /\ expandedCategory = roleCategories[1].name
  /\ customRoles = <<>>
  /\ isCustomizeModalOpen = FALSE
  /\ isCreateModalOpen = FALSE
  /\ modalMode = "create"
  /\ sandboxMode = NoSandbox
  /\ customizeModal = CustomizeMountState(allRoles[1], "create")
  /\ createModal = CreateMountState
  /\ timers = <<>>
  /\ pendingEffects = <<"load", "save">>
  /\ pendingState = NothingQueued
  /\ loaded = NullObject
  /\ renderError = FALSE

\* The browser reloads the page: the module and the component state are
\* constructed anew, the store keeps its value.
Reload ==
  /\ UserGesture
  /\ permissions' = PermissionCatalog
  /\ selectedRole' = allRoles[1]
  /\ expandedCategory' = roleCategories[1].name
  /\ customRoles' = <<>>
  /\ isCustomizeModalOpen' = FALSE
  /\ isCreateModalOpen' = FALSE
  /\ modalMode' = "create"
  /\ sandboxMode' = NoSandbox
  /\ customizeModal' = CustomizeMountState(allRoles[1], "create")
  /\ createModal' = CreateMountState
  /\ timers' = <<>>
  /\ pendingEffects' = <<"load", "save">>
  /\ pendingState' = NothingQueued
  /\ renderError' = FALSE
  /\ lastSave' = IF lastSave.phase \in {"persisted", "reloaded"} /\ Idle
                 THEN [lastSave EXCEPT !.phase = "reloaded"]
                 ELSE NoSave
  /\ addedInSession' = 0
  /\ UNCHANGED <<riskVars, localStorage, now>>

(***************************************************************************)
(* The page as a state machine                                             *)
(***************************************************************************)

Init ==
  /\ Mounted
  /\ localStorage \in StoredPayloads
  /\ now = 0
  /\ lastSave = NoSave
  /\ selectedPermissions = <<>>
  /\ assessment = NotAssessed
  /\ grouping = NotGrouped
  /\ roleDetails = NotGenerated
  /\ resolution = NotResolved(Undefined, UndefinedArray)
  /\ lastGesture = NoGesture
  /\ addedInSession = 0
  /\ gestures = 0

Next ==
  \/ \E role \in ClickableBuiltinRoles \cup Range(customRoles) : SelectRole(role)
  \/ OpenCreateModal
  \/ Duplicate
  \/ Edit
  \/ handleDeleteCustomRole
  \/ \E apiName \in ClickablePermissionNames : CustomizeTogglePermission(apiName)
  \/ \E apiName \in ClickablePermissionNames, access \in accessOptions :
       CustomizeUpdatePermissionAccess(apiName, access)
  \/ \E apiName \in ClickablePermissionNames, access \in accessOptions :
       CustomizeUpdatePendingAccess(apiName, access)
  \/ \E perms \in ClickableBundles : toggleBundle(perms)
  \/ handleRevert
  \/ \E name \in RoleNameInputs : CustomizeSetRoleName(name)
  \/ \E text \in DescriptionInputs : CustomizeSetDescription(text)
  \/ CustomizeSave
  \/ CustomizeClose
  \/ CustomizeTestInSandbox
  \/ MenuTestInSandbox
  \/ \E role \in ClickableBuiltinRoles \cup Range(customRoles) \cup {sandboxMode.unsavedRole} :
       SandboxRoleChange(role)
  \/ SandboxExit
  \/ \E role \in ClickableBuiltinRoles : handleBaseRoleSelect(role)
  \/ handleReset
  \/ \E apiName \in ClickablePermissionNames : CreateTogglePermission(apiName)
  \/ \E apiName \in ClickablePermissionNames, access \in accessOptions :
       CreateUpdatePermissionAccess(apiName, access)
  \/ \E apiName \in ClickablePermissionNames, access \in accessOptions :
       CreateUpdatePendingAccess(apiName, access)
  \/ \E name \in RoleNameInputs : CreateSetRoleName(name)
  \/ \E text \in DescriptionInputs : CreateSetDescription(text)
  \/ CreateSave
  \/ CreateClose
  \/ CreateTestInSandbox
  \/ \E i \in DOMAIN timers : FireClose(i)
  \/ \E i \in DOMAIN timers : FireToggle(i)
  \/ Tick
  \/ LoadEffect
  \/ SaveEffect
  \/ Rerender
  \/ Reload

Spec == Init /\ [][Next]_vars

(***************************************************************************)
(* The risk assessment as a function of its argument                       *)
(***************************************************************************)

InitRisk ==
  /\ Mounted
  /\ localStorage = NullObject
  /\ now = 0
  /\ lastSave = NoSave
  /\ \E choice \in [1..RiskPoolSize -> Inclusion] :
       selectedPermissions = PermissionSetFor(choice, RiskPoolSize)
  /\ assessment = NotAssessed
  /\ grouping = NotGrouped
  /\ roleDetails = NotGenerated
  /\ resolution = NotResolved(Undefined, UndefinedArray)
  /\ lastGesture = NoGesture
  /\ addedInSession = 0
  /\ gestures = 0

\* generateRiskAssessment(selectedPermissions)
Assess ==
  /\ assessment = NotAssessed
  /\ assessment' = generateRiskAssessment(selectedPermissions)
  /\ UNCHANGED <<permissions, selectedPermissions, grouping, resolution, roleDetails,
                 pageVars, gestures>>

NextRisk == Assess

SpecRisk == InitRisk /\ [][NextRisk]_vars

(***************************************************************************)
(* The grouping functions as functions of their arguments                  *)
(***************************************************************************)

InitGroup ==
  /\ Mounted
  /\ localStorage = NullObject
  /\ now = 0
  /\ lastSave = NoSave
  /\ \E choice \in [1..GroupPoolSize -> BOOLEAN] :
       selectedPermissions = PermissionListFor(choice, GroupPoolSize)
  /\ assessment = NotAssessed
  /\ grouping = NotGrouped
  /\ roleDetails = NotGenerated
  /\ resolution = NotResolved(Undefined, UndefinedArray)
  /\ lastGesture = NoGesture
  /\ addedInSession = 0
  /\ gestures = 0

\* groupPermissions(selectedPermissions, groupBy); the function has no throw
\* statement and always returns.
CallGroupPermissions(groupBy) ==
  /\ grouping = NotGrouped
  /\ grouping' = [function |-> "groupPermissions", groupBy |-> groupBy,
                  outcome |-> "returned",
                  groups |-> groupPermissions(selectedPermissions, groupBy)]
  /\ UNCHANGED <<permissions, selectedPermissions, assessment, resolution, roleDetails,
                 pageVars, gestures>>

\* groupPerms(selectedPermissions) of a builder modal whose groupBy state has
\* the given value; the function has no throw statement and always returns.
CallGroupPerms(groupBy) ==
  /\ grouping = NotGrouped
  /\ grouping' = [function |-> "groupPerms", groupBy |-> groupBy,
                  outcome |-> "returned",
                  groups |-> groupPerms(selectedPermissions, groupBy)]
  /\ UNCHANGED <<permissions, selectedPermissions, assessment, resolution, roleDetails,
                 pageVars, gestures>>

NextGroup ==
  \/ \E groupBy \in GroupByInputs : CallGroupPermissions(groupBy)
  \/ \E groupBy \in GroupByInputs : CallGroupPerms(groupBy)

SpecGroup == InitGroup /\ [][NextGroup]_vars

(***************************************************************************)
(* The resolver functions as functions of their arguments                  *)
(***************************************************************************)

InitResolve ==
  /\ Mounted
  /\ localStorage = NullObject
  /\ now = 0
  /\ lastSave = NoSave
  /\ selectedPermissions = <<>>
  /\ assessment = NotAssessed
  /\ grouping = NotGrouped
  /\ roleDetails = NotGenerated
  /\ \E roleId \in RoleIdInputs, choice \in [1..ResolvePoolSize -> BOOLEAN] :
       resolution = NotResolved(roleId, ApiNameListFor(choice, ResolvePoolSize))
  /\ lastGesture = NoGesture
  /\ addedInSession = 0
  /\ gestures = 0

\* getPermissionsForRole(roleId); the function has no throw statement and
\* reads properties of objects only, so it always returns.
CallGetPermissionsForRole ==
  /\ resolution.function = "none"
  /\ resolution' = [resolution EXCEPT !.function = "getPermissionsForRole",
                                      !.outcome = "returned",
                                      !.result = getPermissionsForRole(resolution.roleId)]
  /\ UNCHANGED <<permissions, selectedPermissions, assessment, grouping, roleDetails,
                 pageVars, gestures>>

\* getPermissionsByApiNames(apiNames); it always returns.
CallGetPermissionsByApiNames ==
  /\ resolution.function = "none"
  /\ resolution' = [resolution EXCEPT !.function = "getPermissionsByApiNames",
                                      !.outcome = "returned",
                                      !.result = getPermissionsByApiNames(resolution.apiNames)]
  /\ UNCHANGED <<permissions, selectedPermissions, assessment, grouping, roleDetails,
                 pageVars, gestures>>

\* rolePermissions of the page for a selected custom role that names
\* resolution.apiNames; the expression always yields a list.
ResolveRolePermissions(shape) ==
  /\ resolution.function = "none"
  /\ LET role == StoredCustomRole(resolution.apiNames, shape)
     IN  resolution' = [resolution EXCEPT !.function = "rolePermissions",
                                          !.role = role,
                                          !.outcome = "returned",
                                          !.result = RolePermissionsOf(role)]
  /\ UNCHANGED <<permissions, selectedPermissions, assessment, grouping, roleDetails,
                 pageVars, gestures>>

NextResolve ==
  \/ CallGetPermissionsForRole
  \/ CallGetPermissionsByApiNames
  \/ \E shape \in RoleShapes : ResolveRolePermissions(shape)

SpecResolve == InitResolve /\ [][NextResolve]_vars

(***************************************************************************)
(* The role summary as a function of the selected permissions              *)
(***************************************************************************)

InitDetails ==
  /\ Mounted
  /\ localStorage = NullObject
  /\ now = 0
  /\ lastSave = NoSave
  /\ \E base \in {"none", "all"}, choice \in [1..DetailsPoolSize -> BOOLEAN] :
       selectedPermissions = DetailsInput(base, choice)
  /\ assessment = NotAssessed
  /\ grouping = NotGrouped
  /\ resolution = NotResolved(Undefined, UndefinedArray)
  /\ roleDetails = NotGenerated
  /\ lastGesture = NoGesture
  /\ addedInSession = 0
  /\ gestures = 0

\* generateRoleDetails(selectedPermissions)
Generate ==
  /\ roleDetails = NotGenerated
  /\ roleDetails' = generateRoleDetails(selectedPermissions)
  /\ UNCHANGED <<permissions, selectedPermissions, assessment, grouping, resolution,
                 pageVars, gestures>>

NextDetails == Generate

SpecDetails == InitDetails /\ [][NextDetails]_vars

(***************************************************************************)
(* Properties of the risk assessment                                       *)
(***************************************************************************)

\* generateRiskAssessment has returned.
Assessed == assessment # NotAssessed

\* Number of permissions of selectedPermissions with a given property,
\* counted over positions.
WriteBearingAt == {i \in DOMAIN selectedPermissions :
                     selectedPermissions[i].operationType \in {"Write", "Read + Write"}}
CriticalAt == {i \in DOMAIN selectedPermissions : selectedPermissions[i].riskLevel = "Critical"}
ElevatedAt == {i \in DOMAIN selectedPermissions : selectedPermissions[i].riskLevel = "Elevated"}
CredentialsAt == {i \in DOMAIN selectedPermissions : selectedPermissions[i].hasPaymentCredentials}
FinancialAt == {i \in DOMAIN selectedPermissions : selectedPermissions[i].hasFinancialData}
PIIAt == {i \in DOMAIN selectedPermissions : selectedPermissions[i].hasPII}
CategoriesSpanned ==
  Cardinality({selectedPermissions[i].productCategory : i \in DOMAIN selectedPermissions})

\* Every permission of the set has operationType "Read-only".
AllReadOnly == \A i \in DOMAIN selectedPermissions :
                 selectedPermissions[i].operationType = "Read-only"

\* The breadth bonus.
BreadthBonus == IF CategoriesSpanned > 8 THEN 10 ELSE 0

\* C8: for every non-empty permission set that is not read-only the score
\* is min(100, 25*critical + 15*elevated + 20*credentials + 10*financial +
\* 8*pii + 10 if more than 70% of the set is write-bearing + 10 if the set
\* spans more than 8 product categories), critical and elevated counting
\* write-bearing permissions only.
C8_ScoreFormula ==
  (Assessed /\ selectedPermissions # <<>> /\ ~AllReadOnly) =>
    assessment.score =
      Min(100,
          25 * Cardinality(CriticalAt \cap WriteBearingAt)
          + 15 * Cardinality(ElevatedAt \cap WriteBearingAt)
          + 20 * Cardinality(CredentialsAt)
          + 10 * Cardinality(FinancialAt)
          + 8 * Cardinality(PIIAt)
          + (IF 10 * Cardinality(WriteBearingAt) > 7 * Len(selectedPermissions)
             THEN 10 ELSE 0)
          + BreadthBonus)

\* A mixed set (write-bearing permissions together with read-only views,
\* among them a Critical permission viewed read-only) that spans more than 8
\* product categories and stays under the cap has been assessed.
C8_Witness ==
  /\ Assessed
  /\ WriteBearingAt # {}
  /\ CriticalAt \ WriteBearingAt # {}
  /\ CategoriesSpanned > 8
  /\ assessment.score > 0
  /\ assessment.score < 100

\* The risk-level and sensitivity score a read-only set accumulates before
\* the 0.3 multiplier: round(20c * 0.2) + round(10f * 0.2) + round(8p * 0.2).
ReadOnlyAccumulated ==
  4 * Cardinality(CredentialsAt) + 2 * Cardinality(FinancialAt)
  + (16 * Cardinality(PIIAt) + 5) \div 10

\* C9 as stated: for every non-empty read-only set the score is at most 30%
\* of the score accumulated before the multiplier, breadth bonus included.
C9_AtMostThirtyPercent ==
  (Assessed /\ selectedPermissions # <<>> /\ AllReadOnly) =>
    10 * assessment.score <= 3 * (ReadOnlyAccumulated + BreadthBonus)

\* C9 amended: for every non-empty read-only set the score is
\* min(100, round(0.3 * S) + B), S being the risk-level and sensitivity score
\* accumulated before the multiplier, round rounding half up, and B the
\* breadth bonus, which is added after the multiplier and not reduced.
C9_RoundedThirtyPercentPlusBreadth ==
  (Assessed /\ selectedPermissions # <<>> /\ AllReadOnly) =>
    /\ 10 * (assessment.score - BreadthBonus) <= 3 * ReadOnlyAccumulated + 5
    /\ 10 * (assessment.score - BreadthBonus) > 3 * ReadOnlyAccumulated - 5

\* A read-only set with a non-zero accumulated score that spans more than 8
\* product categories has been assessed.
C9_Witness ==
  /\ Assessed
  /\ selectedPermissions # <<>>
  /\ AllReadOnly
  /\ ReadOnlyAccumulated > 3
  /\ BreadthBonus = 10

\* C10: the score is an integer from 0 to 100, and overallRisk is "High"
\* iff score >= 45, "Medium" iff 20 <= score < 45, "Low" iff score < 20.
C10_ScoreRangeAndThresholds ==
  Assessed =>
    /\ assessment.score \in 0..100
    /\ assessment.overallRisk = "High" <=> assessment.score >= 45
    /\ assessment.overallRisk = "Medium" <=>
         (20 <= assessment.score /\ assessment.score < 45)
    /\ assessment.overallRisk = "Low" <=> assessment.score < 20

\* A set scoring from 45 to 69 has been assessed as "High".
C10_Witness ==
  /\ Assessed
  /\ assessment.score >= 45
  /\ assessment.score < 70
  /\ assessment.overallRisk = "High"

\* The set contains a permission with the given apiName.
InSet(apiName) == \E i \in DOMAIN selectedPermissions : selectedPermissions[i].apiName = apiName

\* The assessment has a factor with the given name.
HasFactor(name) == \E i \in DOMAIN assessment.factors : assessment.factors[i].name = name

\* C11: for the set consisting of the catalog permission
\* balance_transfer_operations alone, the assessment has a "Critical
\* Operations" factor of level High and a "Financial Data" factor, its
\* warnings include "Can transfer funds between accounts", its score is at
\* least 25 and its overallRisk is "High".
C11_BalanceTransferAlone ==
  (Assessed /\ selectedPermissions = <<CatalogPermission("balance_transfer_operations")>>) =>
    /\ \E i \in DOMAIN assessment.factors :
         /\ assessment.factors[i].name = "Critical Operations"
         /\ assessment.factors[i].level = "High"
    /\ HasFactor("Financial Data")
    /\ "Can transfer funds between accounts" \in Range(assessment.warnings)
    /\ assessment.score >= 25
    /\ assessment.overallRisk = "High"

\* The set of balance_transfer_operations alone has been assessed.
C11_Witness ==
  /\ Assessed
  /\ Len(selectedPermissions) = 1
  /\ selectedPermissions[1].apiName = "balance_transfer_operations"
  /\ selectedPermissions[1].operationType = "Write"

\* Number of warnings generated before those of the high-risk table.
PrecedingWarnings ==
  (IF CredentialsAt # {} /\ ~AllReadOnly THEN 1 ELSE 0)
  + (IF Cardinality(PIIAt) > 3 /\ ~AllReadOnly THEN 1 ELSE 0)

\* Position, in generation order, of the warning of the k-th entry of the
\* high-risk table when its permission is in the set.
WarningPosition(k) ==
  PrecedingWarnings
  + Cardinality({j \in 1..k : InSet(HIGH_RISK_PERMISSIONS[j].apiName)})

\* C12 as stated: for every assessed set and every entry of the high-risk
\* table whose permission is in the set, the returned warnings contain the
\* entry's fixed warning string.
C12_EveryHighRiskWarningReturned ==
  Assessed =>
    \A k \in DOMAIN HIGH_RISK_PERMISSIONS :
      InSet(HIGH_RISK_PERMISSIONS[k].apiName) =>
        HIGH_RISK_PERMISSIONS[k].warning \in Range(assessment.warnings)

\* C12, amended: for every assessed set and every entry of the high-risk
\* table whose permission is in the set, the returned warnings contain the
\* entry's fixed warning string exactly when it is among the first five
\* warnings generated.
C12_HighRiskWarningWithinFirstFive ==
  Assessed =>
    \A k \in DOMAIN HIGH_RISK_PERMISSIONS :
      InSet(HIGH_RISK_PERMISSIONS[k].apiName) =>
        (HIGH_RISK_PERMISSIONS[k].warning \in Range(assessment.warnings)
           <=> WarningPosition(k) <= 5)

\* An assessed set generates six warnings: the fifth and the sixth are
\* those of high-risk permissions of the set.
C12_Witness ==
  /\ Assessed
  /\ \E k \in DOMAIN HIGH_RISK_PERMISSIONS :
       InSet(HIGH_RISK_PERMISSIONS[k].apiName) /\ WarningPosition(k) = 5
  /\ \E k \in DOMAIN HIGH_RISK_PERMISSIONS :
       InSet(HIGH_RISK_PERMISSIONS[k].apiName) /\ WarningPosition(k) = 6

\* C13: the "Standard Operations" factor is emitted only when the set is
\* neither read-only nor write-heavy (write-bearing fraction at most 0.7),
\* and never together with "Write-Heavy Access" or "Read-Only Access".
C13_OperationTypeFactorsExclusive ==
  (Assessed /\ HasFactor("Standard Operations")) =>
    /\ ~AllReadOnly
    /\ 10 * Cardinality(WriteBearingAt) <= 7 * Len(selectedPermissions)
    /\ ~HasFactor("Write-Heavy Access")
    /\ ~HasFactor("Read-Only Access")

\* C14: on the empty set the assessment has score 0, overallRisk "Low", no
\* factors, no warnings and the one recommendation "Add permissions to
\* define role capabilities".
C14_EmptySet ==
  (Assessed /\ selectedPermissions = <<>>) =>
    /\ assessment.score = 0
    /\ assessment.overallRisk = "Low"
    /\ assessment.factors = <<>>
    /\ assessment.warnings = <<>>
    /\ assessment.recommendations = <<"Add permissions to define role capabilities">>

\* The empty set has been assessed.
C14_Witness == Assessed /\ Len(selectedPermissions) = 0

(***************************************************************************)
(* Properties of the grouping                                              *)
(***************************************************************************)

\* A grouping function has returned.
Grouped == grouping # NotGrouped

\* The bucket with the given label, empty if there is none.
Bucket(label) ==
  IF label \in DOMAIN grouping.groups THEN grouping.groups[label] ELSE <<>>

\* Number of times permission p occurs in the bucket with the given label.
Occurrences(p, label) ==
  Cardinality({i \in DOMAIN Bucket(label) : Bucket(label)[i] = p})

\* The labels of the sensitivity buckets.
SensitivityLabels == {"PII", "Financial Data", "Payment Credentials", "Non-sensitive"}

\* Whether p carries the flag a sensitivity label stands for.
Qualifies(p, label) ==
  CASE label = "PII" -> p.hasPII
    [] label = "Financial Data" -> p.hasFinancialData
    [] label = "Payment Credentials" -> p.hasPaymentCredentials
    [] label = "Non-sensitive" ->
         ~p.hasPII /\ ~p.hasFinancialData /\ ~p.hasPaymentCredentials

\* C15: grouping a permission list by sensitivity, with groupPermissions or
\* with the grouping of the builder modals, puts each permission once in
\* each bucket of its set flags and in "Non-sensitive" if and only if none
\* of the three flags is set; there are no other buckets, every input
\* permission is in at least one bucket and the bucket sizes sum to at
\* least the input length.
C15_SensitivityBuckets ==
  (Grouped /\ grouping.groupBy = "sensitivity") =>
    /\ DOMAIN grouping.groups \subseteq SensitivityLabels
    /\ \A label \in SensitivityLabels :
         /\ \A i \in DOMAIN selectedPermissions :
              Occurrences(selectedPermissions[i], label) =
                IF Qualifies(selectedPermissions[i], label) THEN 1 ELSE 0
         /\ Range(Bucket(label)) \subseteq Range(selectedPermissions)
    /\ \A i \in DOMAIN selectedPermissions :
         \E label \in SensitivityLabels : Occurrences(selectedPermissions[i], label) > 0
    /\ Len(Bucket("PII")) + Len(Bucket("Financial Data"))
         + Len(Bucket("Payment Credentials")) + Len(Bucket("Non-sensitive"))
         >= Len(selectedPermissions)

\* A list with a permission that has two flags set and one that has none
\* has been grouped by sensitivity by the grouping of the builder modals.
C15_Witness ==
  /\ Grouped
  /\ grouping.function = "groupPerms"
  /\ grouping.groupBy = "sensitivity"
  /\ \E i \in DOMAIN selectedPermissions :
       /\ selectedPermissions[i].hasPII /\ selectedPermissions[i].hasFinancialData
       /\ Occurrences(selectedPermissions[i], "PII") = 1
       /\ Occurrences(selectedPermissions[i], "Financial Data") = 1
  /\ \E i \in DOMAIN selectedPermissions :
       /\ Qualifies(selectedPermissions[i], "Non-sensitive")
       /\ Occurrences(selectedPermissions[i], "Non-sensitive") = 1

\* The dimensions a grouping function supports.
SupportedDimensions(function) ==
  {"productCategory", "taskCategory", "operationType", "riskLevel", "sensitivity"}
    \cup (IF function = "groupPerms" THEN {"alphabetical"} ELSE {})

\* C16: grouping with a dimension that is not a supported one fails with an
\* InvalidArgument error and returns no buckets.
C16_UnsupportedDimensionFails ==
  (Grouped /\ grouping.groupBy \notin SupportedDimensions(grouping.function)) =>
    /\ grouping.outcome = "InvalidArgument"
    /\ DOMAIN grouping.groups = {}

(***************************************************************************)
(* Claims about the resolver functions                                     *)
(***************************************************************************)

\* Some catalog permission grants the role id an access level.
GrantedSomething(roleId) ==
  \E j \in DOMAIN permissions :
    roleId \in DOMAIN permissions[j].roleAccess /\ Truthy(permissions[j].roleAccess[roleId])

\* C17: for every string that is not the id of a role granted at least one
\* permission, getPermissionsForRole returns the empty list and raises no
\* error.
C17_UngrantedIdResolvesToNothing ==
  (resolution.function = "getPermissionsForRole" /\ ~GrantedSomething(resolution.roleId)) =>
    (resolution.outcome = "returned" /\ resolution.result = <<>>)


\* The name is the apiName of a catalog permission.
InCatalog(apiName) == \E j \in DOMAIN permissions : permissions[j].apiName = apiName

\* A list-resolving call has been made: getPermissionsByApiNames, or the
\* page's rolePermissions for a custom role.
ResolvedFromNames == resolution.function \in {"getPermissionsByApiNames", "rolePermissions"}

\* C18: names absent from the catalog are dropped silently. The call returns;
\* every element of the resolved list is a catalog permission that is named;
\* every named catalog permission is in the list, once.
C18_AbsentNamesDropped ==
  ResolvedFromNames =>
    /\ resolution.outcome = "returned"
    /\ \A i \in DOMAIN resolution.result :
         /\ resolution.result[i] \in Range(permissions)
         /\ resolution.result[i].apiName \in Range(resolution.apiNames)
    /\ \A apiName \in Range(resolution.apiNames) :
         InCatalog(apiName) =>
           Cardinality({i \in DOMAIN resolution.result :
                          resolution.result[i].apiName = apiName}) = 1
    /\ Len(resolution.result) =
         Cardinality({apiName \in Range(resolution.apiNames) : InCatalog(apiName)})

\* A custom role whose permissionAccess names a permission the catalog does
\* not hold and two it holds has been resolved.
C18_Witness ==
  /\ resolution.function = "rolePermissions"
  /\ resolution.role.permissionAccess # UndefinedObject
  /\ "retired_permission" \in DOMAIN resolution.role.permissionAccess
  /\ ~InCatalog("retired_permission")
  /\ Len(resolution.result) = 2

(***************************************************************************)
(* Claims about the role summary                                           *)
(***************************************************************************)

\* generateRoleDetails has been called.
Generated == roleDetails # NotGenerated

\* The selected list holds every permission of the catalog.
WholeCatalogSelected == ApiNamesOf(permissions) \subseteq ApiNamesOf(selectedPermissions)

\* C22: when the selected set contains every permission of the catalog,
\* generateCannotDo returns the empty list.
C22_MaximalSelectionCannotDoNothing ==
  (Generated /\ WholeCatalogSelected) => roleDetails.cannotDo = <<>>

\* C23: on the empty set generateRoleDetails returns the fixed placeholder
\* description together with a canDo list of exactly one item.
C23_EmptySetPlaceholder ==
  (Generated /\ selectedPermissions = <<>>) =>
    /\ roleDetails.description =
         "A custom role with minimal permissions. Add permissions to define what this role can access."
    /\ Len(roleDetails.canDo) = 1

\* The summary of the empty set has been generated.
C23_Witness ==
  /\ Generated
  /\ selectedPermissions = <<>>
  /\ roleDetails.canDo = <<"Access basic Dashboard features">>

(***************************************************************************)
(* Properties of the page                                                  *)
(***************************************************************************)

\* The custom roles the page holds: the collection and, when it is a custom
\* role, the selected role.
CustomRolesHeld ==
  Range(customRoles) \cup (IF selectedRole.category = "Custom" THEN {selectedRole} ELSE {})

\* C1: once a role saved from a builder modal has been written to the store
\* by the save effect and the page has been reloaded and has finished
\* loading, the role resolves on the main page to the same permission
\* apiNames with the same access levels as when it was saved.
C1_RoundTrip ==
  (lastSave.phase = "reloaded" /\ Idle) =>
    /\ lastSave.index \in DOMAIN customRoles
    /\ ResolvedAccess(customRoles[lastSave.index]) = lastSave.resolved

\* A saved role that holds "read" on a permission whose actions are wider
\* has been persisted and reloaded, and the load has finished.
C1_Witness ==
  /\ lastSave.phase = "reloaded"
  /\ Idle
  /\ customRoles # <<>>
  /\ \E pair \in lastSave.resolved : pair[2] = "read" /\ ActionsOf(pair[1]) = "read, write"

\* The permission apiNames and access levels a catalog grants to a role id.
GrantsIn(catalog, id) ==
  {<<catalog[i].apiName, catalog[i].roleAccess[id]>> :
     i \in {j \in DOMAIN catalog : id \in DOMAIN catalog[j].roleAccess}}

\* The permission apiNames and access levels getPermissionsForRole resolves.
GrantsResolved(id) ==
  LET resolved == getPermissionsForRole(id)
  IN  {<<resolved[i].apiName, Lookup(resolved[i].roleAccess, id)>> : i \in DOMAIN resolved}

\* C2: built-in roles are never edited or deleted: every role of the
\* custom collection has category "Custom" and no built-in id, a selected
\* or sandboxed role with a built-in id is that built-in role unchanged, and
\* each built-in role resolves to the permissions and access levels the
\* catalog granted it at start.
C2_BuiltinsUntouched ==
  /\ \A i \in DOMAIN customRoles :
       customRoles[i].category = "Custom" /\ customRoles[i].id \notin BuiltinRoleIds
  /\ selectedRole.id \in BuiltinRoleIds => selectedRole = BuiltinRole(selectedRole.id)
  /\ (sandboxMode.role # NullObject /\ sandboxMode.role.id \in BuiltinRoleIds) =>
       sandboxMode.role = BuiltinRole(sandboxMode.role.id)
  /\ \A id \in BuiltinRoleIds : GrantsResolved(id) = GrantsIn(PermissionCatalog, id)

\* Delete has removed one of two custom roles.
C2_Witness ==
  /\ lastSave.phase = "deleted"
  /\ Len(customRoles) = 1
  /\ selectedRole = allRoles[1]

\* The role ids in use: the built-in ones, those of the custom roles held,
\* and one id no role has.
RoleIdsInUse ==
  BuiltinRoleIds \cup {r.id : r \in CustomRolesHeld} \cup {"unknown_role"}

\* C3: every permission getPermissionsForRole returns for a role id has
\* that id as a key of its roleAccess, and every permission the main page
\* resolves for a custom role has its apiName as a key of the role's
\* permissionAccess.
C3_OnlyGranted ==
  /\ \A id \in RoleIdsInUse :
       LET resolved == getPermissionsForRole(id)
       IN  \A i \in DOMAIN resolved : id \in DOMAIN resolved[i].roleAccess
  /\ \A role \in CustomRolesHeld :
       LET resolved == RolePermissionsOf(role)
       IN  \A i \in DOMAIN resolved : resolved[i].apiName \in DOMAIN role.permissionAccess

\* The main page shows a custom role that resolves to some, not all,
\* permissions of the catalog.
C3_Witness ==
  /\ Idle
  /\ ~sandboxMode.active
  /\ selectedRole.category = "Custom"
  /\ Len(rolePermissions) > 0
  /\ Len(rolePermissions) < Len(permissions)

\* C4: for every catalog permission p and role id r with p.roleAccess[r]
\* equal to "read", the view of p returned by getPermissionsForRole(r) has
\* operationType "Read-only".
C4_ReadGrantIsReadOnly ==
  \A id \in BuiltinRoleIds :
    LET resolved == getPermissionsForRole(id)
    IN  \A j \in DOMAIN permissions :
          Lookup(permissions[j].roleAccess, id) = "read" =>
            \E i \in DOMAIN resolved :
              /\ resolved[i].apiName = permissions[j].apiName
              /\ resolved[i].operationType = "Read-only"

\* The main page shows a built-in role for which a "Read + Write" catalog
\* permission is resolved as "Read-only".
C4_Witness ==
  /\ ~sandboxMode.active
  /\ selectedRole.id \in BuiltinRoleIds
  /\ \E i \in DOMAIN rolePermissions :
       /\ rolePermissions[i].operationType = "Read-only"
       /\ FindPermission(rolePermissions[i].apiName).operationType = "Read + Write"

\* C5: for a custom role whose permissionAccess maps a write-capable
\* catalog permission to "read", the list the main page resolves for the
\* role (and passes to the risk assessment) reports that permission with
\* operationType "Read-only" and actions "read".
C5_CustomRoleReadOnlyView ==
  (~sandboxMode.active /\ selectedRole.category = "Custom"
     /\ selectedRole.permissionAccess # UndefinedObject) =>
    \A i \in DOMAIN rolePermissions :
      (/\ Lookup(selectedRole.permissionAccess, rolePermissions[i].apiName) = "read"
       /\ FindPermission(rolePermissions[i].apiName).operationType # "Read-only") =>
        /\ rolePermissions[i].operationType = "Read-only"
        /\ rolePermissions[i].actions = "read"

\* C6: resolving permissions never changes the catalog: every record
\* getAllPermissions returns has the operationType, actions and roleAccess
\* it had at start.
C6_CatalogUnchanged ==
  /\ Len(getAllPermissions) = Len(PermissionCatalog)
  /\ \A i \in DOMAIN getAllPermissions :
       /\ getAllPermissions[i].apiName = PermissionCatalog[i].apiName
       /\ getAllPermissions[i].operationType = PermissionCatalog[i].operationType
       /\ getAllPermissions[i].actions = PermissionCatalog[i].actions
       /\ getAllPermissions[i].roleAccess = PermissionCatalog[i].roleAccess

\* The create modal has resolved the permissions of a base role that holds
\* "read" on a "Read + Write" permission.
C6_Witness ==
  /\ ~sandboxMode.active
  /\ createModal.selectedBaseRole # NullObject
  /\ \E j \in DOMAIN PermissionCatalog :
       /\ Lookup(PermissionCatalog[j].roleAccess, createModal.selectedBaseRole.id) = "read"
       /\ PermissionCatalog[j].operationType = "Read + Write"

\* The set of actions an access level or an actions string stands for.
ActionSet(s) ==
  CASE s = "read" -> {"read"}
    [] s = "write" -> {"write"}
    [] s = "read, write" -> {"read", "write"}
    [] OTHER -> {s}

\* Every level of an access map is within the actions of its permission.
WithinActions(access) ==
  \A k \in DOMAIN access : ActionSet(access[k]) \subseteq ActionSet(ActionsOf(k))

\* C7: every access level a role holds on a permission is a subset of the
\* permission's actions: the roleAccess entries of the catalog, the
\* permissionAccess of every custom role, and the working permissionAccess
\* of both builder modals after every builder operation.
C7_AccessWithinActions ==
  /\ \A i \in DOMAIN permissions :
       \A id \in DOMAIN permissions[i].roleAccess :
         ActionSet(permissions[i].roleAccess[id]) \subseteq ActionSet(permissions[i].actions)
  /\ \A role \in CustomRolesHeld : WithinActions(role.permissionAccess)
  /\ ~sandboxMode.active =>
       /\ WithinActions(customizeModal.permissionAccess)
       /\ WithinActions(createModal.permissionAccess)
  /\ sandboxMode.active => WithinActions(sandboxMode.role.permissionAccess)

\* A custom role has been saved that holds "read", chosen in the access
\* selector, on a permission whose actions are "read, write".
C7_Witness ==
  /\ lastSave.phase \in {"saved", "persisted"}
  /\ \E i \in DOMAIN customRoles :
       /\ HasKey(customRoles[i].permissionAccess, "team_management")
       /\ customRoles[i].permissionAccess["team_management"] = "read"
       /\ ActionsOf("team_management") = "read, write"

\* The last change of customRoles was a create, an update or a delete, and
\* the save effect that follows it has run.
MutationPersisted == Idle /\ lastSave.phase \in {"persisted", "updated", "deleted"}

\* C19: after each create, update or delete of a custom role, once the save
\* effect has run, the store holds the serialisation of the whole in-memory
\* list, and reading it back gives the same roles in the same order.
C19_StoreHoldsWholeList ==
  MutationPersisted =>
    /\ localStorage # NullObject
    /\ localStorage = JSONstringify(customRoles)
    /\ JSONparse(localStorage) = customRoles

\* A custom role has been updated while the list holds a role, and the save
\* effect has run.
C19_Witness ==
  /\ MutationPersisted
  /\ lastSave.phase = "updated"
  /\ customRoles # <<>>
  /\ localStorage # NullObject
  /\ Len(localStorage.json) = Len(customRoles)

\* The load effect of this page load read a stored text that is not a
\* serialised role list.
LoadedInvalidPayload == "text" \in DOMAIN loaded

\* Startup has ended: the mount effects have run and the state update the
\* load effect queued, if any, has been rendered or has failed to render.
\* (loaded is cleared by the first user gesture that follows.)
StartupEnded == pendingEffects = <<>> /\ ~pendingState.queued

\* C20: a stored payload that is not a valid serialised role list is treated
\* as empty at startup: when startup has ended, the custom-role collection
\* is empty and the page is rendered (no render has thrown).
C20_InvalidPayloadTreatedAsEmpty ==
  (LoadedInvalidPayload /\ StartupEnded) =>
    /\ ~renderError
    /\ customRoles = <<>>

\* The ids of combinedAllRoles, in order.
CombinedIds == [i \in DOMAIN combinedAllRoles |-> combinedAllRoles[i].id]

\* C21: no two roles of the combined list of built-in and custom roles have
\* the same id.
C21_RoleIdsUnique ==
  \A i, j \in DOMAIN CombinedIds : CombinedIds[i] = CombinedIds[j] => i = j

\* The access map grants the required permission.
GrantsRequired(access) ==
  REQUIRED_PERMISSION \in DOMAIN access /\ Truthy(access[REQUIRED_PERMISSION])

\* C24: while a builder modal is open and rendered, its working
\* permissionAccess contains dashboard_baseline, and every custom role (each
\* was saved from a modal) grants dashboard_baseline.
C24_RequiredPermissionKept ==
  /\ (isCustomizeModalOpen /\ ~sandboxMode.active) =>
       GrantsRequired(customizeModal.permissionAccess)
  /\ (isCreateModalOpen /\ ~sandboxMode.active) =>
       GrantsRequired(createModal.permissionAccess)
  /\ \A i \in DOMAIN customRoles : GrantsRequired(customRoles[i].permissionAccess)

\* The duplicate/edit modal is open after the bundle that holds
\* dashboard_baseline has been unchecked: a permission of that bundle the
\* base role grants is gone, the required one is kept.
C24_Witness ==
  /\ isCustomizeModalOpen
  /\ ~sandboxMode.active
  /\ Idle
  /\ \E apiName \in DOMAIN AccessMapFromRole(selectedRole) :
       /\ apiName # REQUIRED_PERMISSION
       /\ FindPermission(apiName).productCategory =
            FindPermission(REQUIRED_PERMISSION).productCategory
       /\ apiName \notin DOMAIN customizeModal.permissionAccess
  /\ GrantsRequired(customizeModal.permissionAccess)

\* C25: a builder modal adds at most one custom role between being opened
\* and being closed: a Save pressed again before the delayed close adds no
\* second role.
C25_OneRolePerSave == addedInSession <= 1

\* C26: from the Reset of the create modal until the next user gesture the
\* working selection of the modal is exactly {dashboard_baseline: "read"}.
C26_ResetSelectionStays ==
  (lastGesture.kind = "reset" /\ isCreateModalOpen) =>
    createModal.permissionAccess = WithKey(EmptyObject, REQUIRED_PERMISSION, "read")

\* The load effect of this page load read a serialised role list that is
\* not empty.
LoadedRoleList == "json" \in DOMAIN loaded /\ loaded.json # <<>>

\* C27: when the store holds a non-empty role list as the page mounts, the
\* store holds that list at every step of the mount sequence.
C27_StartupKeepsStore == LoadedRoleList => localStorage = loaded

\* The builder modal named by source is open and holds state.
ModalHolds(source, state) ==
  IF source = "customize"
  THEN /\ isCustomizeModalOpen
       /\ customizeModal # Unmounted
       /\ customizeModal.roleName = state.roleName
       /\ customizeModal.customDescription = state.customDescription
       /\ customizeModal.permissionAccess = state.permissionAccess
  ELSE /\ isCreateModalOpen
       /\ createModal # Unmounted
       /\ createModal.roleName = state.roleName
       /\ createModal.customDescription = state.customDescription
       /\ createModal.permissionAccess = state.permissionAccess

\* "Return to live account" was the last gesture, after a sandbox visit
\* that began with "Test in sandbox" in a builder modal.
ReturnedFromModalVisit ==
  lastGesture.kind = "exit" /\ lastGesture.entry.source # "none"

\* C28: after the return from a sandbox visit that began in a builder modal,
\* that modal is open with the role name, custom description and
\* permissionAccess it held when the sandbox was entered.
C28_EditsSurviveSandbox ==
  ReturnedFromModalVisit => ModalHolds(lastGesture.entry.source, lastGesture.entry)

\* The step is a sandbox gesture: entering the sandbox (from the role menu
\* or from a builder modal), picking another role to test, or leaving it.
SandboxGesture ==
  /\ gestures' = gestures + 1
  /\ lastGesture'.kind \in {"enter", "switch", "exit"}

\* C29: no sandbox gesture changes the custom-role collection, the store or
\* the role selected on the main page.
C29_SandboxIsSimulation ==
  [][SandboxGesture => UNCHANGED <<customRoles, localStorage, selectedRole>>]_vars

\* The sandbox was entered from a builder modal and left again while a
\* custom role exists and is stored.
C29_Witness ==
  /\ lastGesture.kind = "exit"
  /\ lastGesture.entry.source # "none"
  /\ ~sandboxMode.active
  /\ customRoles # <<>>
  /\ localStorage = JSONstringify(customRoles)

\* C30: every role of the custom-role collection has a name that is not
\* empty after trimming.
C30_RoleNamesNotBlank ==
  \A i \in DOMAIN customRoles : Truthy(Trim(customRoles[i].name))

====
